---- MODULE Spec2Model ----
(***************************************************************************)
(* Model of the invoice PDF pipeline of src/app/utils/generateInvoice.ts:  *)
(* generateInvoicePDF and the helpers it calls (loadImageAsDataUrl,        *)
(* getImageAspectRatio, loadCompanyProfileFromStorage,                     *)
(* loadProductReferenceMap, drawSectionBox, formatMoneyDt, toDateSafe).    *)
(*                                                                         *)
(* Lengths are in tenths of a millimetre, so that the source's decimal     *)
(* millimetre constants (4.8, 6.6, 3.4, ...) are integers.                 *)
(*                                                                         *)
(* JavaScript values are tagged records: Undefined, Str(s) with s a        *)
(* sequence of one-character strings, Num(n) with n an integer, NaN,       *)
(* DateOf(n) and InvalidDate.  Objects are records; a field that an object *)
(* does not have reads as Undefined (Get).                                 *)
(***************************************************************************)
EXTENDS Integers, Sequences, FiniteSets, TLC

----------------------------------------------------------------------------
(* JavaScript values *)

Undefined == [t |-> "undefined"]

Null == [t |-> "null"]

\* the completion of a call that raised, or of an await on a rejected promise
Thrown == [t |-> "thrown"]

NaN == [t |-> "nan"]

InvalidDate == [t |-> "invalidDate"]

Str(s) == [t |-> "string", v |-> s]

Num(n) == [t |-> "number", v |-> n]

DateOf(n) == [t |-> "date", v |-> n]

IsObject(x) == "t" \notin DOMAIN x

\* obj.f, where a missing property reads as undefined
Get(obj, f) == IF IsObject(obj) /\ f \in DOMAIN obj THEN obj[f] ELSE Undefined

\* a ?? b
Nullish(a, b) == IF a = Undefined \/ a = Null THEN b ELSE a

\* Boolean(a)
Truthy(a) ==
    IF IsObject(a) THEN TRUE
    ELSE CASE a.t = "undefined" -> FALSE
           [] a.t = "null" -> FALSE
           [] a.t = "nan" -> FALSE
           [] a.t = "string" -> a.v # <<>>
           [] a.t = "number" -> a.v # 0
           [] OTHER -> TRUE

\* a || b
OrElse(a, b) == IF Truthy(a) THEN a ELSE b

IsSpace(c) == c = " "

RECURSIVE TrimStart(_)
TrimStart(s) ==
    IF s = <<>> THEN <<>>
    ELSE IF IsSpace(Head(s)) THEN TrimStart(Tail(s)) ELSE s

RECURSIVE TrimEnd(_)
TrimEnd(s) ==
    IF s = <<>> THEN <<>>
    ELSE IF IsSpace(s[Len(s)]) THEN TrimEnd(SubSeq(s, 1, Len(s) - 1)) ELSE s

\* String.prototype.trim on a sequence of characters
Trim(s) == TrimEnd(TrimStart(s))

Digits == <<"0", "1", "2", "3", "4", "5", "6", "7", "8", "9">>

DigitValue(c) == CHOOSE d \in 0..9 : Digits[d + 1] = c

IsDigit(c) == \E d \in 0..9 : Digits[d + 1] = c

RECURSIVE NatToChars(_)
NatToChars(n) ==
    IF n < 10 THEN <<Digits[n + 1]>>
    ELSE NatToChars(n \div 10) \o <<Digits[(n % 10) + 1]>>

IntToChars(n) == IF n < 0 THEN <<"-">> \o NatToChars(-n) ELSE NatToChars(n)

RECURSIVE CharsToNat(_)
CharsToNat(s) ==
    IF s = <<>> THEN 0
    ELSE 10 * CharsToNat(SubSeq(s, 1, Len(s) - 1)) + DigitValue(s[Len(s)])

\* String(x)
ToStringJS(x) ==
    CASE x.t = "string" -> x.v
      [] x.t = "number" -> IntToChars(x.v)
      [] x.t = "nan" -> <<"N", "a", "N">>
      [] x.t = "null" -> <<"n", "u", "l", "l">>
      [] OTHER -> <<"u", "n", "d", "e", "f", "i", "n", "e", "d">>

\* Number(x): a number is itself, undefined is NaN, a string is parsed
\* (blank is 0, a run of digits is its value, anything else is NaN)
ToNumberJS(x) ==
    CASE x.t = "number" -> x
      [] x.t = "nan" -> NaN
      [] x.t = "null" -> Num(0)
      [] x.t = "string" ->
           IF Trim(x.v) = <<>> THEN Num(0)
           ELSE IF \A i \in 1..Len(Trim(x.v)) : IsDigit(Trim(x.v)[i])
                THEN Num(CharsToNat(Trim(x.v)))
                ELSE NaN
      [] OTHER -> NaN

\* a * b on numbers
Times(a, b) == IF a.t = "number" /\ b.t = "number" THEN Num(a.v * b.v) ELSE NaN

CURRENCY == <<"D", "t">>

\* n.toFixed(2) for the integer amounts the model enumerates
ToFixed2(n) == IF n.t = "number" THEN IntToChars(n.v) \o <<".", "0", "0">> ELSE <<"N", "a", "N">>

formatMoneyDt(value) == ToFixed2(ToNumberJS(OrElse(value, Num(0)))) \o <<" ">> \o CURRENCY

toDateSafe(value) ==
    IF ~Truthy(value) THEN Undefined
    ELSE IF value.t = "date" THEN value
    ELSE IF value.t = "number" THEN DateOf(value.v)
    ELSE Undefined

----------------------------------------------------------------------------
(* Arrays *)

RECURSIVE FilterTruthy(_)
\* array.filter(Boolean) on an array of character sequences
FilterTruthy(a) ==
    IF a = <<>> THEN <<>>
    ELSE IF Head(a) # <<>> THEN <<Head(a)>> \o FilterTruthy(Tail(a))
    ELSE FilterTruthy(Tail(a))

RECURSIVE UniqueSeq(_)
\* Array.from(new Set(a)): first occurrences, in order
UniqueSeq(a) ==
    IF a = <<>> THEN <<>>
    ELSE LET rest == UniqueSeq(SubSeq(a, 1, Len(a) - 1))
             last == a[Len(a)]
         IN IF \E i \in 1..Len(rest) : rest[i] = last THEN rest ELSE Append(rest, last)

\* obj.items ?? []
ItemsOf(obj) == IF IsObject(obj) /\ "items" \in DOMAIN obj THEN obj.items ELSE <<>>

\* the array under field f of a company record, or absent
HasArray(obj, f) == IsObject(obj) /\ f \in DOMAIN obj

\* (a ?? []).map((p) => String(p ?? "").trim()).filter(Boolean)
TrimmedNonEmpty(a) ==
    FilterTruthy([i \in 1..Len(a) |-> Trim(ToStringJS(Nullish(a[i], Str(<<>>))))])

----------------------------------------------------------------------------
(* loadCompanyProfileFromStorage: raw is the state of localStorage under the
   key "companyProfile": kind "throws" (storage access raises), "absent",
   "malformed" (JSON.parse raises), or "json" with the parsed object. *)

\* the loader without its try/catch: a storage or parse failure escapes
loadCompanyProfileFromStorage_NoCatch(raw) ==
    IF raw.kind \in {"throws", "malformed"} THEN Thrown ELSE Undefined

loadCompanyProfileFromStorage(raw) ==
    IF raw.kind # "json" THEN Undefined
    ELSE LET parsed == raw.parsed
             phoneNumbers == IF HasArray(parsed, "phoneNumbers")
                             THEN TrimmedNonEmpty(parsed.phoneNumbers) ELSE <<>>
             addresses == IF HasArray(parsed, "addresses")
                          THEN TrimmedNonEmpty(parsed.addresses) ELSE <<>>
             name == IF Get(parsed, "name").t = "string"
                     THEN Str(Trim(Get(parsed, "name").v)) ELSE Undefined
             email == IF Get(parsed, "email").t = "string"
                      THEN Str(Trim(Get(parsed, "email").v)) ELSE Undefined
             all == [name |-> name, email |-> email,
                     phoneNumbers |-> [i \in 1..Len(phoneNumbers) |-> Str(phoneNumbers[i])],
                     addresses |-> [i \in 1..Len(addresses) |-> Str(addresses[i])]]
             \* lines 90-91: an empty list is left undefined
             lists == (IF phoneNumbers # <<>> THEN {"phoneNumbers"} ELSE {})
                      \cup (IF addresses # <<>> THEN {"addresses"} ELSE {})
         IN IF ~Truthy(name) /\ ~Truthy(email) /\ phoneNumbers = <<>> /\ addresses = <<>>
            THEN Undefined
            ELSE [f \in {"name", "email"} \cup lists |-> all[f]]

\* the condition of the company block, line 317
CompanyPresent(company) ==
    /\ company # Undefined
    /\ \/ Truthy(Get(company, "name"))
       \/ Truthy(Get(company, "email"))
       \/ (HasArray(company, "phoneNumbers") /\ Len(company.phoneNumbers) > 0)
       \/ (HasArray(company, "addresses") /\ Len(company.addresses) > 0)

\* lines 327-328: (a ?? []).map((p) => String(p ?? "").trim()).filter(Boolean)
CompanyList(company, f) ==
    IF HasArray(company, f) THEN TrimmedNonEmpty(company[f]) ELSE <<>>

\* lines 332-366: the text the company block writes, top to bottom: the
\* trimmed name and email when the untrimmed field is truthy, then the
\* trimmed non-empty phone numbers and addresses
CompanyLines(company) ==
    (IF Truthy(Get(company, "name")) THEN <<Trim(ToStringJS(company.name))>> ELSE <<>>)
    \o (IF Truthy(Get(company, "email")) THEN <<Trim(ToStringJS(company.email))>> ELSE <<>>)
    \o CompanyList(company, "phoneNumbers")
    \o CompanyList(company, "addresses")

----------------------------------------------------------------------------
(* loadImageAsDataUrl: fetch is what the logo request does: "networkError"
   (fetch rejects), "notOk" (response.ok is false), "blobError"
   (response.blob rejects), "readError" (FileReader.onerror), "ok". *)

DataUrl == Str(<<"d", "a", "t", "a", ":">>)

\* the loader without the response.ok check: an error page is read as the image
loadImageAsDataUrl_IgnoresStatus(fetch) == IF fetch \in {"ok", "notOk"} THEN DataUrl ELSE Null

loadImageAsDataUrl(fetch) == IF fetch = "ok" THEN DataUrl ELSE Null

(* getImageAspectRatio: probe is what decoding the data URL does:
   kind "decodeError" (img.onerror) or "size" with the natural size w, h.
   The ratio is the exact fraction n/d; Null when the size has a zero side. *)

getImageAspectRatio(probe) ==
    IF probe.kind = "decodeError" THEN Null
    ELSE IF probe.w = 0 \/ probe.h = 0 THEN Null
    ELSE [n |-> probe.w, d |-> probe.h]

logoMaxH == 20

logoMaxW == 34

\* the sizing without the clamp of lines 304-307
LogoSize_NoClamp(aspectRatio) ==
    IF aspectRatio = Null
    THEN [w |-> [n |-> logoMaxH, d |-> 1], h |-> [n |-> logoMaxH, d |-> 1]]
    ELSE [w |-> [n |-> logoMaxH * aspectRatio.n, d |-> aspectRatio.d],
          h |-> [n |-> logoMaxH, d |-> 1]]

\* lines 297-308: the drawn logo's width and height in millimetres, as fractions
LogoSize(aspectRatio) ==
    IF aspectRatio = Null
    THEN [w |-> [n |-> logoMaxH, d |-> 1], h |-> [n |-> logoMaxH, d |-> 1]]
    ELSE IF logoMaxH * aspectRatio.n > logoMaxW * aspectRatio.d
         THEN [w |-> [n |-> logoMaxW, d |-> 1],
               h |-> [n |-> logoMaxW * aspectRatio.d, d |-> aspectRatio.n]]
         ELSE [w |-> [n |-> logoMaxH * aspectRatio.n, d |-> aspectRatio.d],
               h |-> [n |-> logoMaxH, d |-> 1]]

----------------------------------------------------------------------------
(* loadProductReferenceMap.  firestoreLoads: whether import("firebase/firestore")
   resolves.  catalog[id] is what getDoc(doc(db, "products", id)) does: kind
   "error" (rejects), "missing" (snap.exists() is false) or "found" with the
   record's reference field (Undefined when the record has none). *)

\* one entry of the Promise.all, lines 153-162
\* getDoc on an id the products collection does not hold finds nothing
CatalogAt(catalog, productId) ==
    IF productId \in DOMAIN catalog THEN catalog[productId] ELSE [kind |-> "missing"]

LookupEntry(productId, catalog) ==
    IF CatalogAt(catalog, productId).kind = "found"
    THEN Nullish(CatalogAt(catalog, productId).reference, Str(productId))
    ELSE Str(productId)

EmptyMap == [id \in {} |-> Undefined]

\* the ids getDoc is called with, in order
LookupsIssued(productIds, firestoreLoads) ==
    IF firestoreLoads THEN UniqueSeq(FilterTruthy(productIds)) ELSE <<>>

\* the resolver without the per-lookup try/catch: one failed lookup rejects the
\* Promise.all, and the outer catch returns the empty mapping
loadProductReferenceMap_NoInnerCatch(productIds, firestoreLoads, catalog) ==
    LET uniqueIds == UniqueSeq(FilterTruthy(productIds))
    IN [rejected |-> FALSE,
        map |-> IF uniqueIds = <<>> THEN EmptyMap
                ELSE IF ~firestoreLoads THEN EmptyMap
                ELSE IF \E i \in 1..Len(uniqueIds) : CatalogAt(catalog, uniqueIds[i]).kind = "error"
                     THEN EmptyMap
                     ELSE [id \in {uniqueIds[i] : i \in 1..Len(uniqueIds)} |-> LookupEntry(id, catalog)]]

\* the promise's completion: rejected, or fulfilled with map
loadProductReferenceMap(productIds, firestoreLoads, catalog) ==
    LET uniqueIds == UniqueSeq(FilterTruthy(productIds))
    IN [rejected |-> FALSE,
        map |-> IF uniqueIds = <<>> THEN EmptyMap
                ELSE IF ~firestoreLoads THEN EmptyMap
                ELSE [id \in {uniqueIds[i] : i \in 1..Len(uniqueIds)} |-> LookupEntry(id, catalog)]]

\* map[key] on a plain object
MapGet(map, key) == IF key \in DOMAIN map THEN map[key] ELSE Undefined

----------------------------------------------------------------------------
(* Line items, lines 416-437 *)

\* String(item.reference ?? "").trim()
InlineReference(item) == Trim(ToStringJS(Nullish(Get(item, "reference"), Str(<<>>))))

\* String(item.productId ?? item.id ?? "").trim()
ProductKey(item) ==
    Trim(ToStringJS(Nullish(Nullish(Get(item, "productId"), Get(item, "id")), Str(<<>>))))

RECURSIVE SelectUnresolved(_)
\* lines 416-419
SelectUnresolved(items) ==
    IF items = <<>> THEN <<>>
    ELSE IF InlineReference(Head(items)) = <<>>
         THEN <<ProductKey(Head(items))>> \o SelectUnresolved(Tail(items))
         ELSE SelectUnresolved(Tail(items))

RECURSIVE unresolvedProductIds_All(_)
\* lines 416-419 without the filter on the inline reference
unresolvedProductIds_All(items) ==
    IF items = <<>> THEN <<>>
    ELSE FilterTruthy(<<ProductKey(Head(items))>>) \o unresolvedProductIds_All(Tail(items))

unresolvedProductIds(items) == FilterTruthy(SelectUnresolved(items))

\* line 426 with the catalog reference taking precedence over the inline one
PrintedReference_ResolvedFirst(item, map) ==
    LET productId == ProductKey(item)
        resolvedReference == IF productId # <<>> THEN MapGet(map, productId) ELSE Str(<<>>)
    IN OrElse(OrElse(resolvedReference, Str(InlineReference(item))),
              IF productId # <<>> THEN Str(productId) ELSE Str(<<"-">>))

\* line 426
PrintedReference(item, map) ==
    LET productId == ProductKey(item)
        resolvedReference == IF productId # <<>> THEN MapGet(map, productId) ELSE Str(<<>>)
    IN OrElse(OrElse(Str(InlineReference(item)), resolvedReference),
              IF productId # <<>> THEN Str(productId) ELSE Str(<<"-">>))

\* lines 427-429
LineTotal(item) ==
    LET qty == ToNumberJS(Nullish(Get(item, "quantity"), Num(0)))
        unit == ToNumberJS(Nullish(Get(item, "unitPrice"), Num(0)))
    IN ToNumberJS(Nullish(Get(item, "totalPrice"), Times(qty, unit)))

\* lines 430-436: the five cells of a row
Row(item, map) ==
    [reference |-> ToStringJS(PrintedReference(item, map)),
     description |-> ToStringJS(OrElse(Str(Trim(ToStringJS(Nullish(Get(item, "description"), Str(<<>>))))),
                                       Str(<<"-">>))),
     qty |-> ToStringJS(ToNumberJS(Nullish(Get(item, "quantity"), Num(0)))),
     unit |-> formatMoneyDt(ToNumberJS(Nullish(Get(item, "unitPrice"), Num(0)))),
     total |-> formatMoneyDt(LineTotal(item))]

Rows(items, map) == [i \in 1..Len(items) |-> Row(items[i], map)]

----------------------------------------------------------------------------
(* Entry normalization, lines 232-266 *)

isClientOrderCall(arg2) == Truthy(arg2) /\ IsObject(arg2)

OptionsOf(arg2, arg3) ==
    LET optionsCandidate == IF isClientOrderCall(arg2) THEN arg3 ELSE arg2
    IN IF Truthy(optionsCandidate) /\ IsObject(optionsCandidate) THEN optionsCandidate ELSE Undefined

\* lines 251-258
NormalizeItem(item) ==
    [id |-> Get(item, "id"),
     productId |-> Get(item, "productId"),
     description |-> Get(item, "description"),
     quantity |-> ToNumberJS(Nullish(Get(item, "quantity"), Num(0))),
     unitPrice |-> ToNumberJS(Nullish(Get(item, "unitPrice"), Num(0))),
     totalPrice |-> ToNumberJS(Nullish(Get(item, "totalPrice"), Num(0)))]

\* lines 241-264
NormalizeLegacy(client, order) ==
    [invoiceNumber |-> Get(order, "orderNumber"),
     createdAt |-> Get(order, "createdAt"),
     clientCIN |-> Get(client, "cin"),
     client |-> [name |-> Get(client, "name"), email |-> Get(client, "email"),
                 phone |-> Get(client, "phone"), location |-> Get(client, "location")],
     items |-> [i \in 1..Len(ItemsOf(order)) |-> NormalizeItem(ItemsOf(order)[i])],
     subtotal |-> Get(order, "subtotal"),
     taxRate |-> Get(order, "taxRate"),
     taxAmount |-> Get(order, "taxAmount"),
     totalAmount |-> ToNumberJS(Nullish(Get(order, "totalAmount"), Num(0))),
     notes |-> Undefined]

InvoiceOf(arg1, arg2) ==
    IF isClientOrderCall(arg2) THEN NormalizeLegacy(arg1, arg2) ELSE arg1

----------------------------------------------------------------------------
(* Page geometry, in tenths of a millimetre *)

pageWidth == 2100

pageHeight == 2970

marginX == 200

footerY == pageHeight - 100

headerBandH == 260

contentTop == headerBandH + 100

boxGap == 80

halfWidth == (pageWidth - marginX * 2 - boxGap) \div 2

padX == 40

padY == 40

headerH == 90

rowGap == 48

labelW == 240

\* the average advance of one character of the 9.2pt value font
CharW == 17

Max(a, b) == IF a >= b THEN a ELSE b

\* doc.splitTextToSize(text, w).length: the number of lines the text wraps to
SplitTextToSize(text, w) == Max(1, (Len(text) * CharW + w - 1) \div w)

\* line 189: String(r.value ?? "").trim() || "-", the text a row's value is printed as
ValueText(value) ==
    ToStringJS(OrElse(Str(Trim(ToStringJS(Nullish(value, Str(<<>>))))), Str(<<"-">>)))

BoxTexts(boxRows) == [i \in 1..Len(boxRows) |-> ValueText(boxRows[i].value)]

\* line 189, per row
ValueLines(value, w) == SplitTextToSize(ValueText(value), w - padX * 2 - labelW)

RECURSIVE ContentLines(_, _)
\* line 191
ContentLines(boxRows, w) ==
    IF boxRows = <<>> THEN 0
    ELSE ValueLines(Head(boxRows).value, w) + ContentLines(Tail(boxRows), w)

\* the height without the padding above the header band
drawSectionBox_TwoPads(boxRows, w) == headerH + padY + ContentLines(boxRows, w) * rowGap + padY

\* line 192: the height drawSectionBox returns
drawSectionBox(boxRows, w) == padY + headerH + padY + ContentLines(boxRows, w) * rowGap + padY

\* a conditional row of a detail box: ...(cond ? [{label, value}] : [])
RowIf(value, label) == IF Truthy(value) THEN <<[label |-> label, value |-> value]>> ELSE <<>>

\* toLocaleDateString, as the digits of the day number
DateText(d) == Str(IntToChars(d.v))

\* line 382 without the createdAt fallback
IssueDate_NowOnly(invoice, now) == Nullish(toDateSafe(Get(invoice, "issueDate")), DateOf(now))

\* line 382
IssueDate(invoice, now) ==
    Nullish(Nullish(toDateSafe(Get(invoice, "issueDate")), toDateSafe(Get(invoice, "createdAt"))),
            DateOf(now))

\* lines 394-399
leftRows(invoice, now) ==
    LET invoiceNumber == Nullish(Get(invoice, "invoiceNumber"), Str(<<>>))
        dueDate == toDateSafe(Get(invoice, "dueDate"))
        status == Nullish(Get(invoice, "status"), Str(<<>>))
    IN <<[label |-> "Invoice :", value |-> OrElse(invoiceNumber, Str(<<"-">>))],
         [label |-> "Issue :", value |-> DateText(IssueDate(invoice, now))]>>
       \o (IF dueDate # Undefined THEN <<[label |-> "Due :", value |-> DateText(dueDate)]>> ELSE <<>>)
       \o RowIf(status, "Status :")

\* lines 401-407
rightRows(invoice) ==
    <<[label |-> "Name :", value |-> Nullish(Get(Get(invoice, "client"), "name"), Str(<<"-">>))]>>
    \o RowIf(Get(invoice, "clientCIN"), "CIN :")
    \o RowIf(Get(Get(invoice, "client"), "email"), "Email :")
    \o RowIf(Get(Get(invoice, "client"), "phone"), "Phone :")
    \o RowIf(Get(Get(invoice, "client"), "location"), "Addr :")

\* line 411 taking the left box's height for both
boxHeight_Left(invoice, now) == drawSectionBox(leftRows(invoice, now), halfWidth)

\* line 411
boxHeight(invoice, now) ==
    Max(drawSectionBox(leftRows(invoice, now), halfWidth), drawSectionBox(rightRows(invoice), halfWidth))

\* line 414
TableStartY(invoice, now) == contentTop + boxHeight(invoice, now) + 120

----------------------------------------------------------------------------
(* The paginated table of jspdf-autotable, as called at lines 439-472: the
   head row, then one row per line item; a row that does not fit above the
   bottom margin starts a new page under a repeated head row.  descLines[i]
   is the number of lines the library wraps row i's description to. *)

tableMargin == 141

cellPadding == 35

bodyLineH == 37

headRowH == 109

BodyRowH(lines) == cellPadding * 2 + lines * bodyLineH

RECURSIVE LayoutRows(_, _, _, _)
\* [pages, finalY] after rows i..n, from the cursor y on page `pages`
LayoutRows(i, n, descLines, at) ==
    IF i > n THEN at
    ELSE LET h == BodyRowH(descLines[i])
         IN IF at.finalY + h > pageHeight - tableMargin
            THEN LayoutRows(i + 1, n, descLines,
                            [pages |-> at.pages + 1, finalY |-> tableMargin + headRowH + h])
            ELSE LayoutRows(i + 1, n, descLines, [pages |-> at.pages, finalY |-> at.finalY + h])

autoTable(startY, nRows, descLines) ==
    LayoutRows(1, nRows, descLines, [pages |-> 1, finalY |-> startY + headRowH])

----------------------------------------------------------------------------
(* Output naming, lines 539-540 *)

UpperCase == <<"A", "B", "C", "D", "E", "F", "G", "H", "I", "J", "K", "L", "M",
               "N", "O", "P", "Q", "R", "S", "T", "U", "V", "W", "X", "Y", "Z">>

LowerCase == <<"a", "b", "c", "d", "e", "f", "g", "h", "i", "j", "k", "l", "m",
               "n", "o", "p", "q", "r", "s", "t", "u", "v", "w", "x", "y", "z">>

IsUpper(c) == \E k \in 1..26 : UpperCase[k] = c

IsLower(c) == \E k \in 1..26 : LowerCase[k] = c

ToLowerChar(c) == IF IsUpper(c) THEN LowerCase[CHOOSE k \in 1..26 : UpperCase[k] = c] ELSE c

\* the class [a-z0-9-_] under the i flag
IsFileChar(c) == IsUpper(c) \/ IsLower(c) \/ IsDigit(c) \/ c = "-" \/ c = "_"

RECURSIVE ReplaceRuns_Each(_, _)
\* the pattern without its "+": every other character becomes a hyphen of its own
ReplaceRuns_Each(s, inRun) ==
    IF s = <<>> THEN <<>>
    ELSE IF IsFileChar(Head(s)) THEN <<Head(s)>> \o ReplaceRuns_Each(Tail(s), FALSE)
    ELSE <<"-">> \o ReplaceRuns_Each(Tail(s), TRUE)

RECURSIVE ReplaceRuns(_, _)
\* .replace(/[^a-z0-9-_]+/gi, "-"): inRun says the previous character was replaced
ReplaceRuns(s, inRun) ==
    IF s = <<>> THEN <<>>
    ELSE IF IsFileChar(Head(s)) THEN <<Head(s)>> \o ReplaceRuns(Tail(s), FALSE)
    ELSE IF inRun THEN ReplaceRuns(Tail(s), TRUE)
    ELSE <<"-">> \o ReplaceRuns(Tail(s), TRUE)

safeFile(invoice) ==
    LET invoiceNumber == Nullish(Get(invoice, "invoiceNumber"), Str(<<>>))
        base == ToStringJS(OrElse(invoiceNumber, Str(<<"i", "n", "v", "o", "i", "c", "e">>)))
        replaced == ReplaceRuns(base, FALSE)
    IN [k \in 1..Len(replaced) |-> ToLowerChar(replaced[k])]

----------------------------------------------------------------------------
(* The render: one invocation of generateInvoicePDF.

   env is the world the render runs in, fixed for the run:
     hasWindow       typeof window !== "undefined"
     modulesLoad     import("jspdf") and import("jspdf-autotable") resolve
     fetch[url]      what fetching the logo at url does
     probe           what decoding the logo does
     addImageThrows  doc.addImage raises
     storage         localStorage under "companyProfile"
     firestoreLoads  import("firebase/firestore") resolves
     catalog         the products collection
     descLines       the wrapped line count of each table row's description
     saveThrows      doc.save raises
     now             the clock, as a day number
   call is the argument list <<arg1, arg2, arg3>>.
   pc is the position in generateInvoicePDF; doc is the jsPDF document:
   its page count, its current page, the drawing operations in order,
   lastAutoTable.finalY and the saved file name. *)

VARIABLES env, call, pc, options, invoice, logoDataUrl, company, doc,
          tableStartY, productReferenceMap, lookups, rows, footerPage,
          totalPages, outcome

vars == <<env, call, pc, options, invoice, logoDataUrl, company, doc,
          tableStartY, productReferenceMap, lookups, rows, footerPage,
          totalPages, outcome>>

(* State beside the running render:
     parked     the frame of a second render suspended at an await, or NoFrame
     firestore  the catalog traffic of loadProductReferenceMap: whether
                firebase/firestore was imported, uniqueIds, the getDoc calls in
                flight, the entries settled so far and the order they settled in
     auth       AuthProvider (src/app/context/AuthContext.tsx)
     settings   SettingsPage (the company profile form)
     invoicesPage  InvoicesPage (src/app/invoices/page.tsx) *)
VARIABLES parked, firestore, auth, settings, invoicesPage

\* what a step of generateInvoicePDF leaves alone
outside == <<parked, firestore, auth, settings, invoicesPage>>

NoFrame == [pc |-> "None"]

NoTraffic == [imported |-> FALSE, ids |-> <<>>, inflight |-> {}, entries |-> <<>>, settled |-> <<>>]

NoAuth == [mounted |-> FALSE]

NoSettings == [mounted |-> FALSE]

NoPage == [mounted |-> FALSE]

DEFAULT_LOGO_URL == <<"/", "l">>

NoDoc == [pages |-> 0, page |-> 0, ops |-> <<>>, lastAutoTable |-> Undefined, saved |-> Undefined]

Draw(d, op) == [d EXCEPT !.ops = Append(@, op)]

\* lines 229-266
Invoke ==
    /\ pc = "Idle"
    /\ IF ~env.hasWindow
       THEN /\ pc' = "Returned"
            /\ outcome' = "resolved"
            /\ UNCHANGED <<options, invoice>>
       ELSE /\ options' = OptionsOf(call[2], call[3])
            /\ invoice' = InvoiceOf(call[1], call[2])
            /\ pc' = "ImportJsPdf"
            /\ UNCHANGED outcome
    /\ UNCHANGED <<outside, env, call, logoDataUrl, company, doc, tableStartY,
                   productReferenceMap, lookups, rows, footerPage, totalPages>>

\* lines 268-277
ImportJsPdf ==
    /\ pc = "ImportJsPdf"
    /\ IF env.modulesLoad
       THEN /\ doc' = [NoDoc EXCEPT !.pages = 1, !.page = 1]
            /\ pc' = "LoadLogo"
            /\ UNCHANGED outcome
       ELSE /\ pc' = "ThrownAtImport"
            /\ outcome' = "rejected"
            /\ UNCHANGED doc
    /\ UNCHANGED <<outside, env, call, options, invoice, logoDataUrl, company, tableStartY,
                   productReferenceMap, lookups, rows, footerPage, totalPages>>

\* line 279
logoUrl == Nullish(Get(options, "logoUrl"), Str(DEFAULT_LOGO_URL))

\* line 280
LoadLogo ==
    /\ pc = "LoadLogo"
    /\ LET r == loadImageAsDataUrl(env.fetch[logoUrl.v])
       IN IF r = Thrown
          THEN /\ pc' = "ThrownAtLogo"
               /\ outcome' = "rejected"
               /\ UNCHANGED logoDataUrl
          ELSE /\ logoDataUrl' = r
               /\ pc' = "HeaderBand"
               /\ UNCHANGED outcome
    /\ UNCHANGED <<outside, env, call, options, invoice, company, doc, tableStartY,
                   productReferenceMap, lookups, rows, footerPage, totalPages>>

\* line 291 with a retry of the logo fetch when no logo was loaded
AfterHeaderBand_Retry(dataUrl) == IF Truthy(dataUrl) THEN "ProbeLogo" ELSE "LoadLogo"

\* line 291: if (logoDataUrl)
AfterHeaderBand(dataUrl) == IF Truthy(dataUrl) THEN "ProbeLogo" ELSE "Header"

\* lines 282-291
DrawHeaderBand ==
    /\ pc = "HeaderBand"
    /\ LET c == Nullish(Get(options, "company"), loadCompanyProfileFromStorage(env.storage))
       IN IF c = Thrown
          THEN /\ pc' = "ThrownAtCompany"
               /\ outcome' = "rejected"
               /\ UNCHANGED <<company, doc>>
          ELSE /\ company' = c
               /\ doc' = Draw(doc, [op |-> "headerBand", page |-> doc.page])
               /\ pc' = AfterHeaderBand(logoDataUrl)
               /\ UNCHANGED outcome
    /\ UNCHANGED <<outside, env, call, options, invoice, logoDataUrl, tableStartY,
                   productReferenceMap, lookups, rows, footerPage, totalPages>>

\* lines 292-313: a failure inside the try block draws nothing
ProbeLogo ==
    /\ pc = "ProbeLogo"
    /\ doc' = IF env.addImageThrows \/ getImageAspectRatio(env.probe) = Thrown THEN doc
              ELSE Draw(doc, [op |-> "logo", page |-> doc.page,
                              size |-> LogoSize(getImageAspectRatio(env.probe))])
    /\ pc' = "Header"
    /\ UNCHANGED <<outside, env, call, options, invoice, logoDataUrl, company, tableStartY,
                   productReferenceMap, lookups, rows, footerPage, totalPages, outcome>>

\* lines 316-414
DrawHeader ==
    /\ pc = "Header"
    /\ doc' = LET d1 == IF CompanyPresent(company)
                        THEN Draw(doc, [op |-> "company", page |-> doc.page,
                                        lines |-> CompanyLines(company)])
                        ELSE doc
                  d2 == Draw(d1, [op |-> "title", page |-> doc.page])
                  d3 == Draw(d2, [op |-> "box", page |-> doc.page, y |-> contentTop,
                                  rows |-> leftRows(invoice, env.now),
                                  texts |-> BoxTexts(leftRows(invoice, env.now)),
                                  h |-> drawSectionBox(leftRows(invoice, env.now), halfWidth)])
              IN Draw(d3, [op |-> "box", page |-> doc.page, y |-> contentTop,
                           rows |-> rightRows(invoice), texts |-> BoxTexts(rightRows(invoice)),
                           h |-> drawSectionBox(rightRows(invoice), halfWidth)])
    /\ tableStartY' = TableStartY(invoice, env.now)
    /\ pc' = "ResolveReferences"
    /\ UNCHANGED <<outside, env, call, options, invoice, logoDataUrl, company,
                   productReferenceMap, lookups, rows, footerPage, totalPages, outcome>>

\* lines 416-437
ResolveReferences ==
    /\ pc = "ResolveReferences"
    /\ lookups' = LookupsIssued(unresolvedProductIds(ItemsOf(invoice)), env.firestoreLoads)
    /\ LET r == loadProductReferenceMap(unresolvedProductIds(ItemsOf(invoice)),
                                        env.firestoreLoads, env.catalog)
       IN IF r.rejected
          THEN /\ pc' = "ThrownAtReferences"
               /\ outcome' = "rejected"
               /\ UNCHANGED <<productReferenceMap, rows>>
          ELSE /\ productReferenceMap' = r.map
               /\ rows' = Rows(ItemsOf(invoice), r.map)
               /\ pc' = "Table"
               /\ UNCHANGED outcome
    /\ UNCHANGED <<outside, env, call, options, invoice, logoDataUrl, company, doc, tableStartY,
                   footerPage, totalPages>>

\* lines 439-472
AutoTable ==
    /\ pc = "Table"
    /\ LET t == autoTable(tableStartY, Len(rows), env.descLines)
           lastPage == doc.page + t.pages - 1
       IN doc' = [Draw(doc, [op |-> "table", page |-> doc.page, y |-> tableStartY,
                             body |-> rows, lastPage |-> lastPage, finalY |-> t.finalY])
                    EXCEPT !.pages = lastPage, !.page = lastPage,
                           !.lastAutoTable = Num(t.finalY)]
    /\ pc' = "Totals"
    /\ UNCHANGED <<outside, env, call, options, invoice, logoDataUrl, company, tableStartY,
                   productReferenceMap, lookups, rows, footerPage, totalPages, outcome>>

\* lines 475-476 anchored at the table's start instead of its end
TotalsY_FromStart(lastAutoTable, startY) == startY + 100

\* lines 475-476
TotalsY(lastAutoTable, startY) == Nullish(lastAutoTable, Num(startY)).v + 100

\* the totals with a dash printed for an amount the invoice does not carry
TotalsText_Dash(inv) ==
    LET shown(f) == IF Get(inv, f) = Undefined THEN <<"-">> ELSE formatMoneyDt(Get(inv, f))
    IN [subtotal |-> shown("subtotal"), tax |-> shown("taxAmount"), total |-> shown("totalAmount")]

\* lines 487-489 and the three formatMoneyDt calls of lines 499-518
TotalsText(inv) ==
    LET subtotal == IF Get(inv, "subtotal").t = "number" THEN inv.subtotal ELSE Num(0)
        taxAmount == IF Get(inv, "taxAmount").t = "number" THEN inv.taxAmount ELSE Num(0)
        totalAmount == ToNumberJS(Nullish(Get(inv, "totalAmount"), Num(0)))
    IN [subtotal |-> formatMoneyDt(subtotal), tax |-> formatMoneyDt(taxAmount),
        total |-> formatMoneyDt(totalAmount)]

\* lines 474-527
DrawTotals ==
    /\ pc = "Totals"
    /\ LET totalsY == TotalsY(doc.lastAutoTable, tableStartY)
           rowY == totalsY + 66
       IN doc' = Draw(doc, [op |-> "totals", page |-> doc.page, y |-> totalsY,
                            subtotalY |-> rowY, taxY |-> rowY + 60,
                            ruleY |-> rowY + 120 - 34, totalY |-> rowY + 120,
                            subtotal |-> TotalsText(invoice).subtotal,
                            tax |-> TotalsText(invoice).tax,
                            total |-> TotalsText(invoice).total])
    /\ totalPages' = doc.pages
    /\ footerPage' = 1
    /\ pc' = "Footers"
    /\ UNCHANGED <<outside, env, call, options, invoice, logoDataUrl, company, tableStartY,
                   productReferenceMap, lookups, rows, outcome>>

\* line 527 with the last page left out
FooterLoopContinues_Short(page, total) == page < total

\* line 527: page <= totalPages
FooterLoopContinues(page, total) == page <= total

\* lines 527-537, one iteration
StampFooter ==
    /\ pc = "Footers"
    /\ FooterLoopContinues(footerPage, totalPages)
    /\ doc' = [Draw(doc, [op |-> "footer", page |-> footerPage,
                          ruleY |-> footerY - 60, textY |-> footerY])
                 EXCEPT !.page = footerPage]
    /\ footerPage' = footerPage + 1
    /\ UNCHANGED <<outside, env, call, pc, options, invoice, logoDataUrl, company, tableStartY,
                   productReferenceMap, lookups, rows, totalPages, outcome>>

\* lines 539-540
Save ==
    /\ pc = "Footers"
    /\ ~FooterLoopContinues(footerPage, totalPages)
    /\ IF env.saveThrows
       THEN /\ pc' = "ThrownAtSave"
            /\ outcome' = "rejected"
            /\ UNCHANGED doc
       ELSE /\ pc' = "Serialized"
            /\ outcome' = "resolved"
            /\ doc' = [doc EXCEPT !.saved = Str(safeFile(invoice) \o <<".", "p", "d", "f">>)]
    /\ UNCHANGED <<outside, env, call, options, invoice, logoDataUrl, company, tableStartY,
                   productReferenceMap, lookups, rows, footerPage, totalPages>>

----------------------------------------------------------------------------
(* Inputs.  The initial states are the calls and worlds checked: families
   of scenarios, each varying the inputs one part of the pipeline reads and
   holding the rest at a default. *)

MaxItems == 2

TallLines == 48

SeqsUpTo(S, n) == UNION {[1..k -> S] : k \in 0..n}

Item(ref, pid, id, qty, unit, total) ==
    [reference |-> ref, productId |-> pid, id |-> id, description |-> Str(<<"d">>),
     quantity |-> qty, unitPrice |-> unit, totalPrice |-> total]

PlainItem == Item(Undefined, Str(<<"p">>), Str(<<"i">>), Num(2), Num(3), Num(6))

\* items that differ in where their reference comes from
RefItems ==
    {Item(r, p, i, Num(2), Num(3), Num(6)) :
        r \in {Undefined, Str(<<" ">>), Str(<<"r", " ">>)},
        p \in {Undefined, Str(<<" ">>), Str(<<"p", " ">>)},
        i \in {Undefined, Str(<<"i">>)}}

\* what a legacy order item can carry of those: it has no reference field
LegacyRefItems == {it \in RefItems : it.reference = Undefined}

\* items that differ in their amounts
AmountItems ==
    {Item(Str(<<"r">>), Undefined, Undefined, q, u, t) :
        q \in {Undefined, Num(0), Num(3)},
        u \in {Undefined, Num(10)},
        t \in {Undefined, Num(0), Num(7)}}

CUSTOM_LOGO_URL == <<"/", "c">>

LogoUrls == {DEFAULT_LOGO_URL, CUSTOM_LOGO_URL}

FullHeader ==
    [invoiceNumber |-> Str(<<"N", "/", "7">>), issueDate |-> DateOf(3), dueDate |-> DateOf(9),
     status |-> Str(<<"P", "a", "i", "d">>), clientCIN |-> Str(<<"1">>),
     client |-> [name |-> Str(<<"a">>), email |-> Str(<<"e">>), phone |-> Str(<<"4">>),
                 location |-> Str(<<"x">>)],
     subtotal |-> Num(5), taxRate |-> Num(0), taxAmount |-> Num(1), totalAmount |-> Num(6)]

BareHeader == [client |-> [name |-> Str(<<"a">>)], totalAmount |-> Num(6)]

WithItems(header, items) == [f \in DOMAIN header \cup {"items"} |->
                                IF f = "items" THEN items ELSE header[f]]

\* a unified invoice record
UnifiedInvoice(items) == WithItems(FullHeader, items)

\* a legacy (client, order) pair
LegacyClient ==
    [cin |-> Str(<<"1">>), name |-> Str(<<"a">>), email |-> Str(<<"e">>), phone |-> Str(<<"4">>),
     location |-> Str(<<"x">>)]

LegacyOrder(items) ==
    [orderNumber |-> Str(<<"N", "/", "7">>), createdAt |-> DateOf(3), items |-> items,
     subtotal |-> Num(5), taxRate |-> Num(0), taxAmount |-> Num(1), totalAmount |-> Num(6)]

UnifiedCall(inv, opts) == <<inv, opts, Undefined>>

LegacyCall(client, order, opts) == <<client, order, opts>>

CompanyA ==
    [name |-> Str(<<"C", "o">>), email |-> Undefined, phoneNumbers |-> <<Str(<<"5">>)>>,
     addresses |-> <<>>]

BlankCompany == [name |-> Str(<<>>), email |-> Undefined, phoneNumbers |-> <<>>, addresses |-> <<>>]

\* a company whose fields hold white space only
SpaceCompany ==
    [name |-> Str(<<" ">>), email |-> Undefined, phoneNumbers |-> <<Str(<<" ">>)>>, addresses |-> <<>>]

OptionSets ==
    {[logoUrl |-> Str(CUSTOM_LOGO_URL)], [company |-> CompanyA], [company |-> BlankCompany],
     [company |-> SpaceCompany], [logoUrl |-> Str(CUSTOM_LOGO_URL), company |-> CompanyA]}

Storages ==
    {[kind |-> "absent"], [kind |-> "throws"], [kind |-> "malformed"],
     [kind |-> "json", parsed |-> [name |-> Str(<<" ", "S">>), phoneNumbers |-> <<Str(<<" ">>), Null>>]],
     [kind |-> "json", parsed |-> [name |-> Num(1), email |-> Str(<<" ">>)]]}

FetchOutcomes == {"networkError", "notOk", "blobError", "readError", "ok"}

Probes ==
    {[kind |-> "decodeError"], [kind |-> "size", w |-> 0, h |-> 5], [kind |-> "size", w |-> 1, h |-> 1],
     [kind |-> "size", w |-> 2, h |-> 1], [kind |-> "size", w |-> 1, h |-> 2]}

CatalogOutcomes ==
    {[kind |-> "error"], [kind |-> "missing"], [kind |-> "found", reference |-> Undefined],
     [kind |-> "found", reference |-> Str(<<"c">>)], [kind |-> "found", reference |-> Str(<<>>)]}

\* the products collection: the record of "p" varies, "i" has the reference "k"
Catalog(p) == [id \in {<<"p">>, <<"i">>} |->
                 IF id = <<"p">> THEN p ELSE [kind |-> "found", reference |-> Str(<<"k">>)]]

DefaultEnv ==
    [hasWindow |-> TRUE, modulesLoad |-> TRUE, fetch |-> [u \in LogoUrls |-> "ok"],
     probe |-> [kind |-> "size", w |-> 1, h |-> 1], addImageThrows |-> FALSE,
     storage |-> [kind |-> "absent"], firestoreLoads |-> TRUE,
     catalog |-> Catalog([kind |-> "found", reference |-> Str(<<"c">>)]),
     descLines |-> [i \in 1..MaxItems |-> 1], saveThrows |-> FALSE, now |-> 7]

\* reference precedence: the items' references and ids, and the catalog
RefScenarios ==
    {[call |-> c, env |-> e] :
        c \in {UnifiedCall(UnifiedInvoice(its), Undefined) : its \in SeqsUpTo(RefItems, MaxItems)}
               \cup {LegacyCall(LegacyClient, LegacyOrder(its), Undefined) :
                        its \in SeqsUpTo(LegacyRefItems, MaxItems)},
        e \in {[DefaultEnv EXCEPT !.catalog = Catalog(p)] : p \in CatalogOutcomes}
               \cup {[DefaultEnv EXCEPT !.firestoreLoads = FALSE]}}

\* amounts: quantity, unit price and line total, in both call shapes
AmountScenarios ==
    {[call |-> c, env |-> DefaultEnv] :
        c \in {UnifiedCall(UnifiedInvoice(its), Undefined) : its \in SeqsUpTo(AmountItems, MaxItems)}
               \cup {LegacyCall(LegacyClient, LegacyOrder(its), Undefined) :
                        its \in SeqsUpTo(AmountItems, MaxItems)}}

\* call shapes: with and without options, logo url and company sources
ShapeScenarios ==
    {[call |-> c, env |-> e] :
        c \in {UnifiedCall(UnifiedInvoice(<<PlainItem>>), o) : o \in OptionSets \cup {Undefined}}
               \cup {LegacyCall(LegacyClient, LegacyOrder(<<PlainItem>>), o) :
                        o \in OptionSets \cup {Undefined}},
        e \in {[DefaultEnv EXCEPT !.fetch = f, !.storage = st] :
                  f \in [LogoUrls -> {"ok", "notOk"}], st \in Storages}}

\* failures of the world outside the logo
FailureScenarios ==
    {[call |-> UnifiedCall(UnifiedInvoice(<<PlainItem>>), Undefined),
      env |-> [DefaultEnv EXCEPT !.hasWindow = hw, !.modulesLoad = ml, !.storage = st,
                                 !.firestoreLoads = fl, !.catalog = Catalog(p), !.saveThrows = sv]] :
        hw \in BOOLEAN, ml \in BOOLEAN, st \in Storages, fl \in BOOLEAN,
        p \in {[kind |-> "error"], [kind |-> "missing"], [kind |-> "found", reference |-> Str(<<"c">>)]},
        sv \in BOOLEAN}

\* failures of the logo
LogoScenarios ==
    {[call |-> UnifiedCall(UnifiedInvoice(<<PlainItem>>), Undefined),
      env |-> [DefaultEnv EXCEPT !.fetch = [u \in LogoUrls |-> f], !.probe = pr,
                                 !.addImageThrows = ai, !.saveThrows = sv]] :
        f \in FetchOutcomes, pr \in Probes, ai \in BOOLEAN, sv \in BOOLEAN}

\* an address of thirty characters, which wraps to a second line in a detail box
LONG_ADDRESS == [k \in 1..30 |-> "x"]

LongHeader == [FullHeader EXCEPT !.client.location = Str(LONG_ADDRESS)]

\* layout: the number of rows, their heights and the detail boxes' rows
LayoutScenarios ==
    {[call |-> c, env |-> [DefaultEnv EXCEPT !.descLines = dl]] :
        c \in {UnifiedCall(WithItems(h, [i \in 1..n |-> PlainItem]), Undefined) :
                  h \in {FullHeader, BareHeader, LongHeader}, n \in 0..MaxItems}
               \cup {LegacyCall(LegacyClient, LegacyOrder([i \in 1..n |-> PlainItem]), Undefined) :
                        n \in 0..MaxItems},
        dl \in [1..MaxItems -> {1, TallLines}]}

MaxNameLen == 3

NameChars == {"A", "b", "7", "/", "#", "-", "_"}

EXAMPLE_NUMBER == <<"I", "N", "V", "/", "2", "0", "2", "4", "#", "0", "7">>

\* invoice numbers: absent, empty, short strings over NameChars, and one long one
InvoiceNumbers ==
    {Undefined, Str(EXAMPLE_NUMBER)} \cup {Str(n) : n \in SeqsUpTo(NameChars, MaxNameLen)}

\* the file name: the invoice number varies, in both call shapes
NameScenarios ==
    {[call |-> c, env |-> DefaultEnv] :
        c \in {UnifiedCall([UnifiedInvoice(<<PlainItem>>) EXCEPT !.invoiceNumber = n], Undefined) :
                  n \in InvoiceNumbers}
               \cup {LegacyCall(LegacyClient, [LegacyOrder(<<PlainItem>>) EXCEPT !.orderNumber = n],
                                Undefined) : n \in {Undefined, Str(<<>>), Str(EXAMPLE_NUMBER)}}}

\* the records of h with only its fields in keep
Only(h, keep) == [f \in DOMAIN h \cap keep |-> h[f]]

AmountFields == {"subtotal", "taxAmount", "totalAmount"}

ItemLists == {<<>>, <<PlainItem>>}

\* unvalidated input: the item list and the three amounts present or absent
AbsentScenarios ==
    {[call |-> c, env |-> DefaultEnv] :
        c \in {UnifiedCall(Only(UnifiedInvoice(its), (DOMAIN FullHeader \ AmountFields) \cup keep),
                           Undefined) :
                  its \in ItemLists, keep \in SUBSET (AmountFields \cup {"items"})}
               \cup {LegacyCall(LegacyClient,
                                Only(LegacyOrder(its), {"orderNumber", "createdAt"} \cup keep),
                                Undefined) :
                        its \in ItemLists, keep \in SUBSET (AmountFields \cup {"items"})}}

\* a client whose name is empty or blank: the Name row of the right box
BlankNameHeaders ==
    {[FullHeader EXCEPT !.client.name = nm] : nm \in {Str(<<>>), Str(<<" ">>)}}

BlankValueScenarios ==
    {[call |-> UnifiedCall(WithItems(h, <<PlainItem>>), Undefined), env |-> DefaultEnv] :
        h \in BlankNameHeaders}

\* issue and creation dates: absent, a date, a timestamp, 0, a text that is no date
DateHeaders ==
    {[f \in {"invoiceNumber", "client", "totalAmount"} \cup present |->
         CASE f = "issueDate" -> is
           [] f = "createdAt" -> cr
           [] OTHER -> FullHeader[f]] :
        is \in {DateOf(3), Str(<<"x">>), Null},
        cr \in {DateOf(5), Num(4), Num(0), Str(<<"x">>)},
        present \in SUBSET {"issueDate", "createdAt"}}

DateScenarios ==
    {[call |-> UnifiedCall(WithItems(h, <<PlainItem>>), Undefined), env |-> DefaultEnv] :
        h \in DateHeaders}

\* one line item whose description wraps to any number of lines up to
\* TallLines: the table ends at every height a row can end at
PageEndScenarios ==
    {[call |-> UnifiedCall(UnifiedInvoice(<<PlainItem>>), Undefined),
      env |-> [DefaultEnv EXCEPT !.descLines = [i \in 1..MaxItems |-> k]]] : k \in 1..TallLines}

MaxSide == 4

\* decoded images of every natural size up to MaxSide, and one of 17 by 10,
\* which scaled to the maximum height is exactly the maximum width
SizeProbes ==
    {[kind |-> "size", w |-> w, h |-> h] : w \in 0..MaxSide, h \in 0..MaxSide}
    \cup {[kind |-> "size", w |-> 17, h |-> 10]}

RatioScenarios ==
    {[call |-> UnifiedCall(UnifiedInvoice(<<PlainItem>>), Undefined),
      env |-> [DefaultEnv EXCEPT !.probe = pr]] : pr \in SizeProbes}

\* amounts that are no numbers: a word, NaN, null
InvalidAmounts == {Str(<<"x">>), NaN, Null}

InvalidAmountItems ==
    {Item(Str(<<"r">>), Undefined, Undefined, q, u, t) :
        q \in InvalidAmounts \cup {Num(3)},
        u \in InvalidAmounts \cup {Num(10)},
        t \in {Undefined, Str(<<"x">>)}}

InvalidAmountScenarios ==
    {[call |-> c, env |-> DefaultEnv] :
        c \in {UnifiedCall(UnifiedInvoice(<<it>>), Undefined) : it \in InvalidAmountItems}
               \cup {LegacyCall(LegacyClient, LegacyOrder(<<it>>), Undefined) :
                        it \in InvalidAmountItems}}

Scenarios ==
    PageEndScenarios \cup DateScenarios \cup BlankValueScenarios \cup RatioScenarios \cup InvalidAmountScenarios \cup AbsentScenarios \cup RefScenarios \cup AmountScenarios \cup ShapeScenarios \cup FailureScenarios
    \cup LogoScenarios \cup LayoutScenarios \cup NameScenarios

Init ==
    /\ \E sc \in Scenarios : call = sc.call /\ env = sc.env
    /\ pc = "Idle"
    /\ options = Undefined
    /\ invoice = Undefined
    /\ logoDataUrl = Null
    /\ company = Undefined
    /\ doc = NoDoc
    /\ tableStartY = 0
    /\ productReferenceMap = EmptyMap
    /\ lookups = <<>>
    /\ rows = <<>>
    /\ footerPage = 0
    /\ totalPages = 0
    /\ outcome = "pending"
    /\ parked = NoFrame
    /\ firestore = NoTraffic
    /\ invoicesPage = NoPage
    /\ auth = NoAuth
    /\ settings = NoSettings

Next ==
    \/ Invoke
    \/ ImportJsPdf
    \/ LoadLogo
    \/ DrawHeaderBand
    \/ ProbeLogo
    \/ DrawHeader
    \/ ResolveReferences
    \/ AutoTable
    \/ DrawTotals
    \/ StampFooter
    \/ Save

Spec == Init /\ [][Next]_<<vars, outside>>

----------------------------------------------------------------------------
(* Two renders in one page.  JavaScript runs one of them at a time; a render
   gives way only at an await (lines 268, 280, 295, 420), before it is called
   and after it has returned.  The variables are the locals of the running
   invocation; parked holds the locals of the other one. *)

AwaitPoints == {"ImportJsPdf", "LoadLogo", "ProbeLogo", "ResolveReferences"}

Finished ==
    {"Returned", "Serialized", "ThrownAtImport", "ThrownAtLogo", "ThrownAtCompany",
     "ThrownAtReferences", "ThrownAtSave"}

\* the locals of the running invocation of generateInvoicePDF
Frame ==
    [call |-> call, pc |-> pc, options |-> options, invoice |-> invoice,
     logoDataUrl |-> logoDataUrl, company |-> company, doc |-> doc,
     tableStartY |-> tableStartY, productReferenceMap |-> productReferenceMap,
     lookups |-> lookups, rows |-> rows, footerPage |-> footerPage,
     totalPages |-> totalPages, outcome |-> outcome]

\* the locals of an invocation not yet made
Fresh(c) ==
    [call |-> c, pc |-> "Idle", options |-> Undefined, invoice |-> Undefined,
     logoDataUrl |-> Null, company |-> Undefined, doc |-> NoDoc, tableStartY |-> 0,
     productReferenceMap |-> EmptyMap, lookups |-> <<>>, rows |-> <<>>, footerPage |-> 0,
     totalPages |-> 0, outcome |-> "pending"]

\* line 273 with the document kept in one module-level variable: the
\* invocation that resumes draws into the document written last
ResumedDoc_ModuleLevel(running, resumed) == running

\* line 273: doc is a const of the invocation, so an invocation that resumes
\* finds its own document
ResumedDoc(running, resumed) == resumed

\* the event loop resumes the other invocation
Switch ==
    /\ parked # NoFrame
    /\ pc \in AwaitPoints \cup Finished \cup {"Idle"}
    /\ parked' = Frame
    /\ call' = parked.call
    /\ pc' = parked.pc
    /\ options' = parked.options
    /\ invoice' = parked.invoice
    /\ logoDataUrl' = parked.logoDataUrl
    /\ company' = parked.company
    /\ doc' = ResumedDoc(doc, parked.doc)
    /\ tableStartY' = parked.tableStartY
    /\ productReferenceMap' = parked.productReferenceMap
    /\ lookups' = parked.lookups
    /\ rows' = parked.rows
    /\ footerPage' = parked.footerPage
    /\ totalPages' = parked.totalPages
    /\ outcome' = parked.outcome
    /\ UNCHANGED <<env, firestore, auth, settings, invoicesPage>>

\* the options of the paired calls: none, or a logo and a company
PairOptions == {Undefined, [logoUrl |-> Str(CUSTOM_LOGO_URL), company |-> CompanyA]}

LegacyPairCalls == {LegacyCall(LegacyClient, LegacyOrder(<<PlainItem>>), o) : o \in PairOptions}

\* the calls made in pairs: legacy calls, the unified calls with the records
\* the legacy calls normalize to, and invoices of other content
PairCalls ==
    LegacyPairCalls
    \cup {UnifiedCall(NormalizeLegacy(c[1], c[2]), c[3]) : c \in LegacyPairCalls}
    \cup {UnifiedCall(WithItems(BareHeader, <<PlainItem, PlainItem>>), Undefined),
          UnifiedCall(UnifiedInvoice(<<>>), [company |-> CompanyA])}

PairEnvs ==
    {DefaultEnv,
     [DefaultEnv EXCEPT !.fetch = [u \in LogoUrls |-> IF u = CUSTOM_LOGO_URL THEN "notOk" ELSE "ok"],
                        !.descLines = [i \in 1..MaxItems |-> TallLines],
                        !.storage = [kind |-> "json", parsed |-> [name |-> Str(<<"S">>)]]]}

InitPair ==
    /\ \E a \in PairCalls, b \in PairCalls, e \in PairEnvs :
          call = a /\ parked = Fresh(b) /\ env = e
    /\ pc = "Idle"
    /\ options = Undefined
    /\ invoice = Undefined
    /\ logoDataUrl = Null
    /\ company = Undefined
    /\ doc = NoDoc
    /\ tableStartY = 0
    /\ productReferenceMap = EmptyMap
    /\ lookups = <<>>
    /\ rows = <<>>
    /\ footerPage = 0
    /\ totalPages = 0
    /\ outcome = "pending"
    /\ firestore = NoTraffic
    /\ invoicesPage = NoPage
    /\ auth = NoAuth
    /\ settings = NoSettings

NextPair ==
    \/ Invoke
    \/ ImportJsPdf
    \/ LoadLogo
    \/ DrawHeaderBand
    \/ ProbeLogo
    \/ DrawHeader
    \/ ResolveReferences
    \/ AutoTable
    \/ DrawTotals
    \/ StampFooter
    \/ Save
    \/ Switch

SpecPair == InitPair /\ [][NextPair]_<<vars, outside>>

----------------------------------------------------------------------------
(* Properties *)

\* the table rows have been computed
RowsKnown == pc \in {"Table", "Totals", "Footers", "Serialized", "ThrownAtSave"}

\* the reference the catalog holds for a key, Undefined when the lookup gives none
CatalogReferenceOf(key) ==
    IF env.firestoreLoads /\ CatalogAt(env.catalog, key).kind = "found"
    THEN Nullish(CatalogAt(env.catalog, key).reference, Str(key))
    ELSE Undefined

\* inline reference, then catalog reference of the key, then the key, then "-"
FirstAvailable(inline, key) ==
    IF inline # <<>> THEN inline
    ELSE IF key # <<>> /\ Truthy(CatalogReferenceOf(key)) THEN ToStringJS(CatalogReferenceOf(key))
    ELSE IF key # <<>> THEN key
    ELSE <<"-">>

TrimmedField(item, f) == Trim(ToStringJS(Nullish(Get(item, f), Str(<<>>))))

\* the product identifier of an item: its productId, or its id when it has no productId
ProductIdOrId(item) ==
    IF Get(item, "productId") # Undefined THEN TrimmedField(item, "productId")
    ELSE TrimmedField(item, "id")

(* C1, as stated: every row prints the first available of the item's trimmed
   inline reference, the catalog reference resolved for its productId, the
   productId, and "-"; so an item with no inline reference and no productId
   prints "-". *)
C1_Original ==
    RowsKnown =>
        \A i \in 1..Len(rows) :
            rows[i].reference = FirstAvailable(TrimmedField(ItemsOf(invoice)[i], "reference"),
                                               TrimmedField(ItemsOf(invoice)[i], "productId"))

(* C1, amended: every row prints the first available of the item's trimmed
   inline reference, the catalog reference resolved for its product
   identifier, that identifier, and "-", where the product identifier is the
   trimmed productId, or the trimmed item id when the item has no productId. *)
C1_ReferencePrecedence ==
    RowsKnown =>
        \A i \in 1..Len(rows) :
            rows[i].reference = FirstAvailable(TrimmedField(ItemsOf(invoice)[i], "reference"),
                                               ProductIdOrId(ItemsOf(invoice)[i]))

\* an inline reference wins over a resolvable catalog reference, and an item
\* with neither inline reference nor productId prints the reference of its id
C1_Witness ==
    /\ RowsKnown
    /\ \E i \in 1..Len(rows) :
          /\ TrimmedField(ItemsOf(invoice)[i], "reference") # <<>>
          /\ ProductIdOrId(ItemsOf(invoice)[i]) \in DOMAIN productReferenceMap
          /\ rows[i].reference = TrimmedField(ItemsOf(invoice)[i], "reference")
    /\ \E j \in 1..Len(rows) :
          /\ TrimmedField(ItemsOf(invoice)[j], "reference") = <<>>
          /\ TrimmedField(ItemsOf(invoice)[j], "productId") # <<>>
          /\ rows[j].reference = <<"c">>

\* the line items as the caller passed them: of the invoice record, or of the order
InputItems == IF IsObject(call[1]) /\ "items" \in DOMAIN call[1] THEN call[1].items ELSE ItemsOf(call[2])

AmountOrZero(x) == IF x.t = "number" THEN x.v ELSE 0

(* C2: a line item whose line total is absent renders quantity x unitPrice
   (a missing quantity or unit price taken as 0), in the legacy (client, order)
   shape as in the unified shape. *)
C2_LineTotalDerived ==
    (RowsKnown /\ Len(rows) = Len(InputItems)) =>
        \A i \in 1..Len(rows) :
            Get(InputItems[i], "totalPrice") = Undefined =>
                rows[i].total =
                    IntToChars(AmountOrZero(Get(InputItems[i], "quantity"))
                               * AmountOrZero(Get(InputItems[i], "unitPrice")))
                    \o <<".", "0", "0", " ", "D", "t">>

\* a unified invoice record carries its client; a legacy client record does not
IsInvoiceRecord(x) == IsObject(x) /\ "client" \in DOMAIN x

ObjectOrUndefined(x) == IF IsObject(x) THEN x ELSE Undefined

(* C3: a call made with a unified invoice record, with or without an options
   object, is consumed as that record with those options; only a call made
   with a (client, order) pair is normalized from the legacy shape. *)
C3_CallShapes ==
    pc \notin {"Idle", "Returned"} =>
        IF IsInvoiceRecord(call[1])
        THEN invoice = call[1] /\ options = ObjectOrUndefined(call[2])
        ELSE invoice = NormalizeLegacy(call[1], call[2]) /\ options = ObjectOrUndefined(call[3])

(* C4, as stated: a render raises an error to its caller only from the final
   save step. *)
C4_Original == outcome = "rejected" => pc = "ThrownAtSave"

(* C4, amended: a render raises an error to its caller only from loading the
   PDF libraries (jspdf, jspdf-autotable) or from the final save step; no
   failure of logo loading, aspect-ratio probing, logo embedding,
   company-profile loading or catalog lookup escapes generateInvoicePDF. *)
C4_ErrorsOnlyFromImportOrSave ==
    /\ outcome = "rejected" =>
          \/ pc = "ThrownAtImport" /\ ~env.modulesLoad
          \/ pc = "ThrownAtSave" /\ env.saveThrows
    /\ pc \notin {"ThrownAtLogo", "ThrownAtCompany", "ThrownAtReferences"}

\* a render serialized although the company profile could not be loaded and
\* the catalog lookup failed
C4_Witness ==
    /\ pc = "Serialized"
    /\ outcome = "resolved"
    /\ env.storage.kind \in {"throws", "malformed"}
    /\ Len(lookups) > 0
    /\ \A k \in 1..Len(lookups) : CatalogAt(env.catalog, lookups[k]).kind = "error"

(* C5: generateInvoicePDF never completes successfully without having saved a
   document: where no file can be produced (no browser environment, or the
   save step fails) the caller gets an error. *)
C5_SavedOrError == outcome = "resolved" => doc.saved # Undefined

\* what fetching the logo of this render does
UsedLogoFetch == env.fetch[logoUrl.v]

\* the logo block, lines 291-314, is over
LogoStageDone ==
    pc \in {"Header", "ResolveReferences", "Table", "Totals", "Footers", "Serialized", "ThrownAtSave"}

LogoOps == {k \in 1..Len(doc.ops) : doc.ops[k].op = "logo"}

SquareLogo == [w |-> [n |-> logoMaxH, d |-> 1], h |-> [n |-> logoMaxH, d |-> 1]]

(* C6, as stated: if the logo fetch returns a non-success response, fails at
   the network level, or the image cannot be read or decoded, the render draws
   no logo and raises no error. *)
C6_Original ==
    (UsedLogoFetch # "ok" \/ env.probe.kind = "decodeError") =>
        /\ pc # "ThrownAtLogo"
        /\ LogoStageDone => LogoOps = {}

(* C6, amended: if the logo fetch returns a non-success response, fails at the
   network level, or the image cannot be read, the render draws no logo and
   raises no error; if the image is read but cannot be decoded when its aspect
   ratio is probed, the render raises no error either and draws the logo as a
   20 by 20 square, unless embedding it fails, in which case it draws no
   logo.  The only failure such a render can end in is that of the save step. *)
C6_LogoFailureIsSoft ==
    /\ pc # "ThrownAtLogo"
    /\ (pc \notin {"Idle", "Returned", "ImportJsPdf", "ThrownAtImport"} /\ outcome = "rejected")
          => pc = "ThrownAtSave"
    /\ LogoStageDone =>
          /\ UsedLogoFetch # "ok" => LogoOps = {}
          /\ (UsedLogoFetch = "ok" /\ env.addImageThrows) => LogoOps = {}
          /\ (UsedLogoFetch = "ok" /\ ~env.addImageThrows /\ env.probe.kind = "decodeError") =>
                /\ Cardinality(LogoOps) = 1
                /\ \A k \in LogoOps : doc.ops[k].size = SquareLogo

\* a render serialized without a logo after the logo fetch failed
C6_Witness ==
    /\ pc = "Serialized"
    /\ UsedLogoFetch \in {"networkError", "notOk", "blobError", "readError"}
    /\ LogoOps = {}

\* the ids the reference resolver was called with
PassedIds == unresolvedProductIds(ItemsOf(invoice))

(* C7, as stated: for every non-empty id passed to the resolver the returned
   mapping has an entry; where the record is missing or the lookup fails for
   any reason the entry is the id itself; the resolver never rejects. *)
C7_Original ==
    /\ pc # "ThrownAtReferences"
    /\ RowsKnown =>
          \A k \in 1..Len(PassedIds) :
              /\ PassedIds[k] \in DOMAIN productReferenceMap
              /\ (~env.firestoreLoads \/ CatalogAt(env.catalog, PassedIds[k]).kind \in {"missing", "error"})
                    => productReferenceMap[PassedIds[k]] = Str(PassedIds[k])

(* C7, amended: when the Firestore module loads, the returned mapping has an
   entry for exactly the non-empty ids passed; the entry is the id itself where
   the record is missing or its lookup fails, and the record's reference (the
   id when it has none) otherwise.  When the Firestore module fails to load,
   the returned mapping is empty.  The resolver never rejects. *)
C7_ResolverFallsBack ==
    /\ pc # "ThrownAtReferences"
    /\ RowsKnown =>
          IF env.firestoreLoads
          THEN /\ DOMAIN productReferenceMap = {PassedIds[k] : k \in 1..Len(PassedIds)}
               /\ \A id \in DOMAIN productReferenceMap :
                     /\ id # <<>>
                     /\ productReferenceMap[id] =
                            IF CatalogAt(env.catalog, id).kind \in {"missing", "error"} THEN Str(id)
                            ELSE IF CatalogAt(env.catalog, id).reference = Undefined THEN Str(id)
                            ELSE CatalogAt(env.catalog, id).reference
          ELSE productReferenceMap = EmptyMap

\* a failed lookup was answered with the id itself
C7_Witness ==
    /\ RowsKnown
    /\ env.firestoreLoads
    /\ \E id \in DOMAIN productReferenceMap :
          /\ CatalogAt(env.catalog, id).kind = "error"
          /\ productReferenceMap[id] = Str(id)

\* the stage of the pipeline a position of generateInvoicePDF belongs to
Stage(p) ==
    CASE p = "Idle" -> "Idle"
      [] p \in {"ImportJsPdf", "LoadLogo"} -> "ResolvingAssets"
      [] p \in {"HeaderBand", "ProbeLogo", "Header"} -> "LayingOutHeader"
      [] p = "ResolveReferences" -> "ResolvingReferences"
      [] p = "Table" -> "RenderingTable"
      [] p = "Totals" -> "RenderingTotals"
      [] p = "Footers" -> "StampingFooters"
      [] p = "Serialized" -> "Serialized"
      [] OTHER -> "Ended"

\* the order of the stages as the claim gives it
StatedOrder ==
    <<"Idle", "ResolvingAssets", "ResolvingReferences", "LayingOutHeader", "RenderingTable",
      "RenderingTotals", "StampingFooters", "Serialized", "Ended">>

\* the order with the references resolved after the header is laid out
HeaderFirstOrder ==
    <<"Idle", "ResolvingAssets", "LayingOutHeader", "ResolvingReferences", "RenderingTable",
      "RenderingTotals", "StampingFooters", "Serialized", "Ended">>

Rank(order, stage) == CHOOSE k \in 1..Len(order) : order[k] = stage

TableOps == {k \in 1..Len(doc.ops) : doc.ops[k].op = "table"}

TotalsOps == {k \in 1..Len(doc.ops) : doc.ops[k].op = "totals"}

FooterOps == {k \in 1..Len(doc.ops) : doc.ops[k].op = "footer"}

(* C8, as stated: a render passes through Idle, ResolvingAssets,
   ResolvingReferences, LayingOutHeader, RenderingTable, RenderingTotals,
   StampingFooters, Serialized in this order and never backwards, and the logo
   and the catalog references are both resolved before anything is drawn. *)
C8_Original ==
    [][/\ Rank(StatedOrder, Stage(pc')) >= Rank(StatedOrder, Stage(pc))
       /\ doc'.ops # <<>> => RowsKnown']_vars

(* C8, amended: a render passes through Idle, ResolvingAssets (libraries and
   logo fetch), LayingOutHeader (header band, aspect-ratio probe and logo,
   company block, title, detail boxes), ResolvingReferences, RenderingTable,
   RenderingTotals, StampingFooters, Serialized in this order, one stage at a
   time, each at most once and never backwards, unless it ends in failure;
   the logo fetch has completed before anything is drawn, and the catalog
   references are resolved after the header is laid out and before the table
   is rendered. *)
C8_StagesInOrder ==
    [][/\ \/ Stage(pc') = Stage(pc)
          \/ Rank(HeaderFirstOrder, Stage(pc')) = Rank(HeaderFirstOrder, Stage(pc)) + 1
          \/ Stage(pc') = "Ended"
       /\ doc'.ops # <<>> => pc' \notin {"Idle", "ImportJsPdf", "LoadLogo"}
       /\ RowsKnown' => \E k \in 1..Len(doc'.ops) : doc'.ops[k].op = "box"
       /\ (\E k \in 1..Len(doc'.ops) : doc'.ops[k].op = "table") => RowsKnown']_vars

\* a render that fetched and drew a logo, looked references up and serialized
C8_Witness ==
    /\ pc = "Serialized"
    /\ LogoOps # {}
    /\ Len(lookups) > 0
    /\ TableOps # {}

(* C9: the footer is stamped exactly once on every realized page 1..N, after
   the table and the totals have been rendered; no footer is stamped before
   the final page count is known, and no page is added once stamping began. *)
C9_FooterOncePerPage ==
    /\ pc \in {"Serialized", "ThrownAtSave"} =>
          \A p \in 1..doc.pages : Cardinality({k \in FooterOps : doc.ops[k].page = p}) = 1
    /\ \A k \in FooterOps :
          /\ doc.ops[k].page \in 1..doc.pages
          /\ Cardinality({j \in FooterOps : doc.ops[j].page = doc.ops[k].page}) = 1
          /\ \E t \in TableOps : t < k
          /\ \E u \in TotalsOps : u < k
          /\ \A j \in (k + 1)..Len(doc.ops) : j \in FooterOps
          /\ doc.pages = totalPages
          /\ \A t \in TableOps : doc.ops[t].lastPage = doc.pages

\* a serialized document of two pages or more
C9_Witness == pc = "Serialized" /\ doc.pages >= 2 /\ Cardinality(FooterOps) = doc.pages

(* C10: the totals block is drawn on the page on which the table ends, at the
   table's realized final position + 10 mm, however many pages the table
   took. *)
C10_TotalsBelowTable ==
    \A k \in TotalsOps :
        /\ Cardinality(TableOps) = 1
        /\ \A t \in TableOps :
              /\ t < k
              /\ doc.ops[k].page = doc.ops[t].lastPage
              /\ doc.ops[k].y = doc.ops[t].finalY + 100
              /\ doc.ops[k].subtotalY > doc.ops[t].finalY

\* totals drawn on a later page, above the height at which the table started
C10_Witness ==
    /\ pc = "Serialized"
    /\ \E k \in TotalsOps : doc.ops[k].page >= 2 /\ doc.ops[k].y < tableStartY
----------------------------------------------------------------------------
\* the characters a saved file name may hold
NameAlphabet ==
    {LowerCase[k] : k \in 1..26} \cup {Digits[k] : k \in 1..10} \cup {"-", "_"}

\* the invoice number the render was given, in either call shape
GivenNumber ==
    IF isClientOrderCall(call[2]) THEN Get(call[2], "orderNumber") ELSE Get(call[1], "invoiceNumber")

\* the saved name without its ".pdf"
SavedBase == SubSeq(doc.saved.v, 1, Len(doc.saved.v) - 4)

RECURSIVE Squeezed(_, _)
\* position by position from i: a letter in lower case, a digit, "-" or "_"
\* stays; of a run of other characters only the first leaves a hyphen
Squeezed(s, i) ==
    IF i > Len(s) THEN <<>>
    ELSE (IF ToLowerChar(s[i]) \in NameAlphabet THEN <<ToLowerChar(s[i])>>
          ELSE IF i = 1 \/ ToLowerChar(s[i - 1]) \in NameAlphabet THEN <<"-">>
          ELSE <<>>) \o Squeezed(s, i + 1)

(* C11: the saved file name, before ".pdf", holds only lowercase letters,
   digits, hyphens and underscores: it is the invoice number in lower case
   with every run of other characters replaced by one hyphen
   ("INV/2024#07" gives "inv-2024-07"); an absent or empty invoice number
   gives "invoice". *)
C11_SafeFileName ==
    pc = "Serialized" =>
        /\ SubSeq(doc.saved.v, Len(doc.saved.v) - 3, Len(doc.saved.v)) = <<".", "p", "d", "f">>
        /\ \A k \in 1..Len(SavedBase) : SavedBase[k] \in NameAlphabet
        /\ IF GivenNumber \in {Undefined, Str(<<>>)}
           THEN SavedBase = <<"i", "n", "v", "o", "i", "c", "e">>
           ELSE SavedBase = Squeezed(GivenNumber.v, 1)
        /\ GivenNumber = Str(EXAMPLE_NUMBER) =>
              SavedBase = <<"i", "n", "v", "-", "2", "0", "2", "4", "-", "0", "7">>

\* a number with an upper-case letter and a run of two other characters was saved
C11_Witness ==
    /\ pc = "Serialized"
    /\ GivenNumber = Str(<<"A", "/", "#">>)
    /\ SavedBase = <<"a", "-">>

----------------------------------------------------------------------------
CompanyOps == {k \in 1..Len(doc.ops) : doc.ops[k].op = "company"}

\* the header has been laid out
HeaderDone ==
    pc \in {"ResolveReferences", "ThrownAtReferences", "Table", "Totals", "Footers",
            "Serialized", "ThrownAtSave"}

\* at least one field of the company is non-empty after trimming
NonBlank(c) ==
    /\ c # Undefined
    /\ \/ Trim(ToStringJS(Nullish(Get(c, "name"), Str(<<>>)))) # <<>>
       \/ Trim(ToStringJS(Nullish(Get(c, "email"), Str(<<>>)))) # <<>>
       \/ (HasArray(c, "phoneNumbers") /\ TrimmedNonEmpty(c.phoneNumbers) # <<>>)
       \/ (HasArray(c, "addresses") /\ TrimmedNonEmpty(c.addresses) # <<>>)

(* C14: a company block is drawn only if at least one field of the company
   identity is non-empty after trimming, whether the company was loaded from
   storage or supplied by the caller in the options. *)
C14_PresentOnlyIfNonBlank ==
    HeaderDone => (CompanyOps # {} => NonBlank(company))

----------------------------------------------------------------------------
\* the record the amounts are read from: the invoice, or the order of a legacy call
GivenRecord == IF isClientOrderCall(call[2]) THEN call[2] ELSE call[1]

\* nothing outside the input fails: the libraries load and the save succeeds
HealthyWorld == env.hasWindow /\ env.modulesLoad /\ ~env.saveThrows

ThrownStates ==
    {"ThrownAtImport", "ThrownAtLogo", "ThrownAtCompany", "ThrownAtReferences", "ThrownAtSave"}

ZeroMoney == <<"0", ".", "0", "0", " ", "D", "t">>

(* C15: the render validates nothing about its input: with an empty or absent
   item list, or an absent subtotal, tax or total, it raises no error and
   goes on to serialization, with an empty table body and 0.00 printed for
   each absent amount. *)
C15_NoValidation ==
    HealthyWorld =>
        /\ pc \notin ThrownStates
        /\ outcome # "rejected"
        /\ pc # "Returned"
        /\ \A t \in TableOps : ItemsOf(GivenRecord) = <<>> => doc.ops[t].body = <<>>
        /\ \A k \in TotalsOps :
              /\ Get(GivenRecord, "subtotal") = Undefined => doc.ops[k].subtotal = ZeroMoney
              /\ Get(GivenRecord, "taxAmount") = Undefined => doc.ops[k].tax = ZeroMoney
              /\ Get(GivenRecord, "totalAmount") = Undefined => doc.ops[k].total = ZeroMoney

\* a record with no item list and none of the three amounts was serialized
C15_Witness ==
    /\ pc = "Serialized"
    /\ ~HasArray(GivenRecord, "items")
    /\ \A f \in AmountFields : Get(GivenRecord, f) = Undefined
    /\ \E t \in TableOps : doc.ops[t].body = <<>>
    /\ \E k \in TotalsOps : doc.ops[k].total = ZeroMoney

----------------------------------------------------------------------------
BoxOps == {k \in 1..Len(doc.ops) : doc.ops[k].op = "box"}

\* the width left for a value beside its label, in a detail box
ValueWidth == halfWidth - 2 * padX - labelW

\* the lines a printed value takes at that width
WrappedLines(value) ==
    LET text == IF Trim(ToStringJS(Nullish(value, Str(<<>>)))) = <<>> THEN <<"-">>
                ELSE Trim(ToStringJS(value))
        whole == (Len(text) * CharW) \div ValueWidth
    IN IF whole * ValueWidth = Len(text) * CharW THEN whole ELSE whole + 1

RECURSIVE LinesOf(_, _)
\* the lines of the first n rows of a box
LinesOf(boxRows, n) ==
    IF n = 0 THEN 0 ELSE LinesOf(boxRows, n - 1) + WrappedLines(boxRows[n].value)

BoxLines(k) == LinesOf(doc.ops[k].rows, Len(doc.ops[k].rows))

(* C16: each detail box reports its true height, 21 mm + 4.8 mm per wrapped
   line, so of two boxes of equal width the one with more wrapped lines is
   strictly higher; the table starts 12 mm below contentTop + max(left height,
   right height), never above the bottom edge of the taller box. *)
C16_TableBelowTallerBox ==
    /\ \A k \in BoxOps : doc.ops[k].h = 210 + 48 * BoxLines(k)
    /\ \A j, k \in BoxOps : BoxLines(j) > BoxLines(k) => doc.ops[j].h > doc.ops[k].h
    /\ HeaderDone =>
          /\ Cardinality(BoxOps) = 2
          /\ \A k \in BoxOps : tableStartY >= doc.ops[k].y + doc.ops[k].h
          /\ \E k \in BoxOps :
                /\ \A j \in BoxOps : doc.ops[k].h >= doc.ops[j].h
                /\ tableStartY = contentTop + doc.ops[k].h + 120
    /\ \A t \in TableOps : doc.ops[t].y = tableStartY

\* the right box has five rows, one of them wrapped, against two rows on the
\* left, and the table was drawn below it
C16_Witness ==
    /\ TableOps # {}
    /\ \E j, k \in BoxOps :
          /\ j < k
          /\ Len(doc.ops[j].rows) < Len(doc.ops[k].rows)
          /\ BoxLines(k) > Len(doc.ops[k].rows)
          /\ doc.ops[k].h > doc.ops[j].h

----------------------------------------------------------------------------
(* loadProductReferenceMap step by step, lines 143-169: the import of
   firebase/firestore, the getDoc calls started by uniqueIds.map, their
   completions in any order, and Object.fromEntries on the Promise.all result.
   firestore.entries[i] is the settled entry of the i-th id, Undefined while
   its getDoc is in flight. *)

\* line 145: uniqueIds, kept in firestore.ids once the resolver has begun
UniqueIds == UniqueSeq(FilterTruthy(unresolvedProductIds(ItemsOf(invoice))))

\* lines 422-437, once the mapping is known
FinishResolve(map) ==
    /\ productReferenceMap' = map
    /\ rows' = Rows(ItemsOf(invoice), map)
    /\ pc' = "Table"

\* lines 416-419 and 144-146: no id to look up returns {} before any import
BeginResolve ==
    /\ pc = "ResolveReferences"
    /\ IF UniqueIds = <<>>
       THEN FinishResolve(EmptyMap)
       ELSE /\ pc' = "ImportFirestore"
            /\ UNCHANGED <<productReferenceMap, rows>>
    /\ firestore' = [firestore EXCEPT !.ids = UniqueIds]
    /\ UNCHANGED <<invoicesPage, parked, auth, settings, env, call, options, invoice, logoDataUrl,
                   company, doc, tableStartY, lookups, footerPage, totalPages, outcome>>

\* lines 148-150 and 166-168: a failed import is caught and returns {}
ImportFirestore ==
    /\ pc = "ImportFirestore"
    /\ firestore' = [firestore EXCEPT !.imported = TRUE,
                                      !.entries = [i \in 1..Len(firestore.ids) |-> Undefined]]
    /\ IF env.firestoreLoads
       THEN /\ pc' = "IssueLookups"
            /\ UNCHANGED <<productReferenceMap, rows>>
       ELSE FinishResolve(EmptyMap)
    /\ UNCHANGED <<invoicesPage, parked, auth, settings, env, call, options, invoice, logoDataUrl,
                   company, doc, tableStartY, lookups, footerPage, totalPages, outcome>>

\* the lookups awaited one after the other: the next starts when the last has settled
Batch_OneAtATime(ids, issued) == SubSeq(ids, issued + 1, issued + 1)

\* lines 152-154: uniqueIds.map runs every callback up to its await, so it
\* starts the getDoc of every id not yet started
Batch(ids, issued) == SubSeq(ids, issued + 1, Len(ids))

\* lines 152-155
IssueLookups ==
    /\ pc = "IssueLookups"
    /\ LET batch == Batch(firestore.ids, Len(lookups))
       IN /\ lookups' = lookups \o batch
          /\ firestore' = [firestore EXCEPT !.inflight = {batch[i] : i \in 1..Len(batch)}]
    /\ pc' = "AwaitLookups"
    /\ UNCHANGED <<invoicesPage, parked, auth, settings, env, call, options, invoice, logoDataUrl, company,
                   doc, tableStartY, productReferenceMap, rows, footerPage, totalPages, outcome>>

\* lines 155-161: one getDoc settles; its callback returns the entry of its id
SettleLookup ==
    /\ pc = "AwaitLookups"
    /\ \E id \in firestore.inflight :
          LET i == CHOOSE j \in 1..Len(firestore.ids) : firestore.ids[j] = id
          IN firestore' = [firestore EXCEPT
                             !.inflight = @ \ {id},
                             !.entries[i] = [id |-> id, value |-> LookupEntry(id, env.catalog)],
                             !.settled = Append(@, id)]
    /\ pc' = IF firestore'.inflight = {} /\ Len(lookups) < Len(firestore.ids)
             THEN "IssueLookups" ELSE "AwaitLookups"
    /\ UNCHANGED <<invoicesPage, parked, auth, settings, env, call, options, invoice, logoDataUrl, company, doc,
                   tableStartY, productReferenceMap, lookups, rows, footerPage, totalPages,
                   outcome>>

\* Object.fromEntries: of two entries with one key the later one stays
FromEntries(entries) ==
    [id \in {entries[i].id : i \in 1..Len(entries)} |->
        entries[CHOOSE i \in 1..Len(entries) :
                   /\ entries[i].id = id
                   /\ \A j \in (i + 1)..Len(entries) : entries[j].id # id].value]

\* a Promise.all that waits for one promise more than uniqueIds.map started
AllSettled_Unissued == firestore.inflight = {} /\ Len(firestore.settled) = Len(firestore.ids) + 1

\* line 152: every promise uniqueIds.map returned has settled
AllSettled == firestore.inflight = {} /\ Len(lookups) = Len(firestore.ids)

\* lines 152 and 165: Promise.all has fulfilled
CollectEntries ==
    /\ pc = "AwaitLookups"
    /\ AllSettled
    /\ FinishResolve(FromEntries(firestore.entries))
    /\ UNCHANGED <<invoicesPage, parked, firestore, auth, settings, env, call, options, invoice, logoDataUrl,
                   company, doc, tableStartY, lookups, footerPage, totalPages, outcome>>

\* a lookup outcome for each of the two ids an item can carry
LookupOutcomes ==
    {[kind |-> "error"], [kind |-> "missing"], [kind |-> "found", reference |-> Undefined],
     [kind |-> "found", reference |-> Str(<<"c">>)]}

\* items with and without an inline reference, keyed by productId "p", by a
\* blank productId, or by the item id "i"
LookupItems ==
    {Item(r, k[1], k[2], Num(1), Num(1), Num(1)) :
        r \in {Undefined, Str(<<"r">>)},
        k \in {<<Str(<<"p">>), Undefined>>, <<Str(<<" ">>), Str(<<"i">>)>>,
               <<Undefined, Str(<<"i">>)>>}}

LookupScenarios ==
    {[call |-> UnifiedCall(UnifiedInvoice(its), Undefined),
      env |-> [DefaultEnv EXCEPT !.firestoreLoads = fl, !.catalog = c]] :
        its \in SeqsUpTo(LookupItems, MaxItems), fl \in BOOLEAN,
        c \in [{<<"p">>, <<"i">>} -> LookupOutcomes]}

InitLookups ==
    /\ \E sc \in LookupScenarios : call = sc.call /\ env = sc.env
    /\ pc = "Idle"
    /\ options = Undefined
    /\ invoice = Undefined
    /\ logoDataUrl = Null
    /\ company = Undefined
    /\ doc = NoDoc
    /\ tableStartY = 0
    /\ productReferenceMap = EmptyMap
    /\ lookups = <<>>
    /\ rows = <<>>
    /\ footerPage = 0
    /\ totalPages = 0
    /\ outcome = "pending"
    /\ parked = NoFrame
    /\ firestore = NoTraffic
    /\ invoicesPage = NoPage
    /\ auth = NoAuth
    /\ settings = NoSettings

NextLookups ==
    \/ Invoke
    \/ ImportJsPdf
    \/ LoadLogo
    \/ DrawHeaderBand
    \/ ProbeLogo
    \/ DrawHeader
    \/ BeginResolve
    \/ ImportFirestore
    \/ IssueLookups
    \/ SettleLookup
    \/ CollectEntries
    \/ AutoTable
    \/ DrawTotals
    \/ StampFooter
    \/ Save

SpecLookups == InitLookups /\ [][NextLookups]_<<vars, outside>>

(* The same render under the scheduling of the event loop: a continuation
   whose awaited operation has settled is run, and every getDoc in flight
   settles.  The worlds: no item, one and two lookups, in a healthy world and
   in worlds where the window, a module, the logo, a lookup or the save fails. *)
LiveItems ==
    {<<>>,
     <<Item(Undefined, Str(<<"p">>), Undefined, Num(1), Num(1), Num(1))>>,
     <<Item(Undefined, Str(<<"p">>), Undefined, Num(1), Num(1), Num(1)),
       Item(Undefined, Undefined, Str(<<"i">>), Num(1), Num(1), Num(1))>>}

LiveEnvs ==
    {DefaultEnv,
     [DefaultEnv EXCEPT !.hasWindow = FALSE],
     [DefaultEnv EXCEPT !.modulesLoad = FALSE],
     [DefaultEnv EXCEPT !.fetch = [u \in LogoUrls |-> "networkError"]],
     [DefaultEnv EXCEPT !.probe = [kind |-> "decodeError"]],
     [DefaultEnv EXCEPT !.firestoreLoads = FALSE],
     [DefaultEnv EXCEPT !.catalog = Catalog([kind |-> "error"])],
     [DefaultEnv EXCEPT !.saveThrows = TRUE]}

LiveScenarios ==
    {[call |-> UnifiedCall(WithItems(BareHeader, its), Undefined), env |-> e] :
        its \in LiveItems, e \in LiveEnvs}

InitLive ==
    /\ \E sc \in LiveScenarios : call = sc.call /\ env = sc.env
    /\ pc = "Idle"
    /\ options = Undefined
    /\ invoice = Undefined
    /\ logoDataUrl = Null
    /\ company = Undefined
    /\ doc = NoDoc
    /\ tableStartY = 0
    /\ productReferenceMap = EmptyMap
    /\ lookups = <<>>
    /\ rows = <<>>
    /\ footerPage = 0
    /\ totalPages = 0
    /\ outcome = "pending"
    /\ parked = NoFrame
    /\ firestore = NoTraffic
    /\ invoicesPage = NoPage
    /\ auth = NoAuth
    /\ settings = NoSettings

\* the steps of the render itself, from one await to the next
RenderStep ==
    \/ ImportJsPdf
    \/ LoadLogo
    \/ DrawHeaderBand
    \/ ProbeLogo
    \/ DrawHeader
    \/ BeginResolve
    \/ ImportFirestore
    \/ IssueLookups
    \/ CollectEntries
    \/ AutoTable
    \/ DrawTotals
    \/ StampFooter
    \/ Save

SpecLive ==
    /\ InitLive
    /\ [][NextLookups]_<<vars, outside>>
    /\ WF_<<vars, outside>>(RenderStep)
    /\ WF_<<vars, outside>>(SettleLookup)

----------------------------------------------------------------------------
(* AuthProvider, src/app/context/AuthContext.tsx.  auth holds:
     user, loading    the two useState cells (lines 21-22)
     pathname         usePathname()
     hasRedirected    the ref of line 25
     currentUser      Firebase's auth.currentUser
     effect           the effect of lines 30-66: "persisting" while
                      setPersistence is awaited, "subscribed" once
                      onAuthStateChanged is registered
     notify           Firebase has a call of the listener to deliver
     observed         the listener has been called since the mount
     pendingNav       the target of a router.replace not yet carried out
     children         whether line 84 renders the children
     redirects        the router.replace calls made by the listener of the
                      current run of the effect
     awaited          the runs of the effect that were cleaned up while their
                      setPersistence was awaited and have not yet resumed
     leaked           the listeners still subscribed that were registered by
                      a run of the effect that has been cleaned up
     resumedLate      a run has resumed from its await after its cleanup *)

MaxAwaited == 2

SomeUser == [uid |-> "u"]

AuthPages == {"/", "/login", "/register", "/signin"}

Pathnames == {"/", "/login", "/register", "/dashboard", "/invoices"}

\* lines 27-28
isAuthPage(pathname) == pathname \in AuthPages

\* line 84 without the test that hides an auth page from a signed-in user
Children_AuthPagesOpen(a) == ~a.loading /\ (isAuthPage(a.pathname) \/ a.user # Null)

\* line 84
Children(a) ==
    /\ ~a.loading
    /\ IF a.user # Null /\ isAuthPage(a.pathname) THEN FALSE
       ELSE isAuthPage(a.pathname) \/ a.user # Null

\* React renders again after the state has changed
Rerender(a) == [a EXCEPT !.children = Children(a)]

\* lines 21-25 and 30-60 at mount: nothing known yet, setPersistence awaited
Mounted(pathname, currentUser) ==
    Rerender([mounted |-> TRUE, user |-> Null, loading |-> TRUE, pathname |-> pathname,
              hasRedirected |-> FALSE, currentUser |-> currentUser, effect |-> "persisting",
              notify |-> FALSE, observed |-> FALSE, pendingNav |-> "none", children |-> FALSE,
              redirects |-> 0, awaited |-> 0, leaked |-> 0, resumedLate |-> FALSE])

\* the run registers its listener whether or not it has been cleaned up
AfterPersistence_NoCancelCheck(didCancel) == "subscribed"

\* lines 40-42: where a run of the effect is after its await
AfterPersistence(didCancel) == IF didCancel THEN "returned" ELSE "subscribed"

\* lines 62-65: didCancel = true and unsubscribe?.(), which removes the
\* listener of a run that has registered one and does nothing for a run still
\* at its await
Cleanup(a) ==
    [a EXCEPT !.awaited = IF a.effect = "persisting" THEN @ + 1 ELSE @,
              !.notify = FALSE]

\* the effect can be cleaned up and run again
CanRerun(a) == a.effect # "persisting" \/ a.awaited < MaxAwaited

\* lines 60-66: a new pathname cleans the effect up and runs it again
AtPath(a, pathname) ==
    IF pathname = a.pathname THEN a
    ELSE [Cleanup(a) EXCEPT !.pathname = pathname, !.effect = "persisting",
                            !.hasRedirected = FALSE, !.redirects = 0]

\* lines 34-42: setPersistence settles either way and the listener is
\* registered; Firebase calls it with the current user
PersistenceSettled ==
    /\ auth.mounted
    /\ auth.effect = "persisting"
    /\ auth' = Rerender([auth EXCEPT !.effect = AfterPersistence(FALSE), !.notify = TRUE])
    /\ UNCHANGED <<vars, invoicesPage, parked, firestore, settings>>

\* lines 34-42 in a run that has been cleaned up: setPersistence settles
\* either way and the run resumes with didCancel true
CancelledPersistenceSettled ==
    /\ auth.mounted
    /\ auth.awaited > 0
    /\ auth' = Rerender([auth EXCEPT
                           !.awaited = @ - 1,
                           !.leaked = IF AfterPersistence(TRUE) = "subscribed" THEN @ + 1 ELSE @,
                           !.resumedLate = TRUE])
    /\ UNCHANGED <<vars, invoicesPage, parked, firestore, settings>>

\* lines 42-57
AuthStateChanged ==
    /\ auth.mounted
    /\ auth.effect = "subscribed"
    /\ auth.notify
    /\ LET firebaseUser == auth.currentUser
           redirect == IF auth.hasRedirected THEN "none"
                       ELSE IF firebaseUser = Null /\ ~isAuthPage(auth.pathname) THEN "/"
                       ELSE IF firebaseUser # Null /\ isAuthPage(auth.pathname) THEN "/dashboard"
                       ELSE "none"
       IN auth' = Rerender([auth EXCEPT
                              !.user = firebaseUser, !.loading = FALSE, !.notify = FALSE,
                              !.observed = TRUE,
                              !.hasRedirected = @ \/ redirect # "none",
                              !.redirects = IF redirect # "none" THEN @ + 1 ELSE @,
                              !.pendingNav = IF redirect # "none" THEN redirect ELSE @])
    /\ UNCHANGED <<vars, invoicesPage, parked, firestore, settings>>

\* the router carries out a router.replace of line 50 or 55
RouterReplace ==
    /\ auth.mounted
    /\ auth.pendingNav # "none"
    /\ auth.pendingNav # auth.pathname => CanRerun(auth)
    /\ auth' = Rerender([AtPath(auth, auth.pendingNav) EXCEPT !.pendingNav = "none"])
    /\ UNCHANGED <<vars, invoicesPage, parked, firestore, settings>>

\* the user follows a link to another page of the application
Navigate ==
    /\ auth.mounted
    /\ CanRerun(auth)
    /\ \E p \in Pathnames \ {auth.pathname} : auth' = Rerender(AtPath(auth, p))
    /\ UNCHANGED <<vars, invoicesPage, parked, firestore, settings>>

\* Firebase signs a user in; a registered listener will be told
SignIn ==
    /\ auth.mounted
    /\ auth.currentUser = Null
    /\ auth' = Rerender([auth EXCEPT !.currentUser = SomeUser,
                                     !.notify = @ \/ auth.effect = "subscribed"])
    /\ UNCHANGED <<vars, invoicesPage, parked, firestore, settings>>

\* Firebase signs the user out; a registered listener will be told
SignOut ==
    /\ auth.mounted
    /\ auth.currentUser # Null
    /\ auth' = Rerender([auth EXCEPT !.currentUser = Null,
                                     !.notify = @ \/ auth.effect = "subscribed"])
    /\ UNCHANGED <<vars, invoicesPage, parked, firestore, settings>>

\* lines 69-76: the page comes back from the back/forward cache with nobody
\* signed in, and window.location.replace("/") loads the application anew
PageShow ==
    /\ auth.mounted
    /\ ~isAuthPage(auth.pathname)
    /\ auth.currentUser = Null
    /\ auth' = Mounted("/", auth.currentUser)
    /\ UNCHANGED <<vars, invoicesPage, parked, firestore, settings>>

InitAuth ==
    /\ \E p \in Pathnames, u \in {Null, SomeUser} : auth = Mounted(p, u)
    /\ call = UnifiedCall(UnifiedInvoice(<<>>), Undefined)
    /\ env = DefaultEnv
    /\ pc = "Idle"
    /\ options = Undefined
    /\ invoice = Undefined
    /\ logoDataUrl = Null
    /\ company = Undefined
    /\ doc = NoDoc
    /\ tableStartY = 0
    /\ productReferenceMap = EmptyMap
    /\ lookups = <<>>
    /\ rows = <<>>
    /\ footerPage = 0
    /\ totalPages = 0
    /\ outcome = "pending"
    /\ parked = NoFrame
    /\ firestore = NoTraffic
    /\ invoicesPage = NoPage
    /\ settings = NoSettings

NextAuth ==
    \/ PersistenceSettled
    \/ CancelledPersistenceSettled
    \/ AuthStateChanged
    \/ RouterReplace
    \/ Navigate
    \/ SignIn
    \/ SignOut
    \/ PageShow

SpecAuth == InitAuth /\ [][NextAuth]_<<vars, outside>>

----------------------------------------------------------------------------
(* SettingsPage, src/unnamed/part_004: the company profile form.  settings
   holds the useState cells of lines 21-32; the strings of the form are
   sequences of characters.  localStorage is env.storage: a storage that
   raises on access (kind "throws") raises on setItem too. *)

MaxEntries == 2

\* what the user has typed: a name and an email, padded or blank, phone
\* numbers as updatePhoneNumber leaves them (digits only), addresses
FormNames == {<<>>, <<" ">>, <<" ", "C", "o", " ">>}

FormEmails == {<<>>, <<"e", " ">>}

FormPhones == {<<>>, <<"1", "2", "3">>, <<"1", "2", "3", "4", "5", "6", "7", "8">>}

FormAddresses == {<<>>, <<" ">>, <<" ", "a", " ">>}

EntriesOf(S) == UNION {[1..n -> S] : n \in 1..MaxEntries}

\* a.map((p) => p.trim()).filter(Boolean), as an array of strings
TrimmedEntries(a) ==
    LET kept == FilterTruthy([i \in 1..Len(a) |-> Trim(a[i])])
    IN [i \in 1..Len(kept) |-> Str(kept[i])]

\* lines 98-105 with the lists saved under the keys "phones" and "locations"
StoredProfile_OtherKeys(f) ==
    [name |-> Str(Trim(f.companyName)), email |-> Str(Trim(f.companyEmail)),
     phones |-> TrimmedEntries(f.phoneNumbers), locations |-> TrimmedEntries(f.addresses),
     description |-> Str(Trim(f.companyDescription)), locked |-> TRUE]

\* lines 98-105: the object handed to JSON.stringify
StoredProfile(f) ==
    [name |-> Str(Trim(f.companyName)), email |-> Str(Trim(f.companyEmail)),
     phoneNumbers |-> TrimmedEntries(f.phoneNumbers), addresses |-> TrimmedEntries(f.addresses),
     description |-> Str(Trim(f.companyDescription)), locked |-> TRUE]

\* JSON.stringify then, at the reader, JSON.parse: a text that is never
\* empty and parses to an object with the same strings, arrays and booleans
JsonText(obj) == [kind |-> "json", parsed |-> obj]

\* lines 66-78: no non-empty phone number shorter than 8 characters
validatePhoneNumbers(f) ==
    \A i \in 1..Len(f.phoneNumbers) :
        Trim(f.phoneNumbers[i]) # <<>> => Len(f.phoneNumbers[i]) >= 8

\* lines 83-88
HandleSaveClick ==
    /\ settings.mounted
    /\ ~settings.isLocked /\ ~settings.saveDialogOpen
    /\ settings' = IF validatePhoneNumbers(settings)
                   THEN [settings EXCEPT !.validationError = FALSE, !.saveDialogOpen = TRUE]
                   ELSE [settings EXCEPT !.validationError = TRUE]
    /\ UNCHANGED <<vars, invoicesPage, parked, firestore, auth>>

\* lines 92-111: up to the await; a storage error is ignored
HandleConfirmSave ==
    /\ settings.mounted
    /\ settings.saveDialogOpen /\ ~settings.isSaving
    /\ settings' = [settings EXCEPT !.isSaving = TRUE]
    /\ env' = IF env.storage.kind = "throws" THEN env
              ELSE [env EXCEPT !.storage = JsonText(StoredProfile(settings))]
    /\ UNCHANGED <<call, pc, options, invoice, logoDataUrl, company, doc, tableStartY,
                   productReferenceMap, lookups, rows, footerPage, totalPages, outcome,
                   invoicesPage, parked, firestore, auth>>

\* lines 111-114: after the 800 ms wait
SaveSettled ==
    /\ settings.mounted
    /\ settings.isSaving
    /\ settings' = [settings EXCEPT !.isSaving = FALSE, !.saveDialogOpen = FALSE,
                                    !.isLocked = TRUE]
    /\ UNCHANGED <<vars, invoicesPage, parked, firestore, auth>>

\* the profiles localStorage may hold before the save
OldStorages ==
    {[kind |-> "absent"], [kind |-> "throws"],
     [kind |-> "json", parsed |-> [name |-> Str(<<"O", "l", "d">>),
                                   phoneNumbers |-> <<Str(<<"9">>)>>]]}

InitSettings ==
    /\ \E n \in FormNames, m \in FormEmails, ph \in EntriesOf(FormPhones),
          ad \in EntriesOf(FormAddresses), st \in OldStorages :
          /\ settings = [mounted |-> TRUE, companyName |-> n, companyEmail |-> m,
                         phoneNumbers |-> ph, addresses |-> ad, companyDescription |-> <<>>,
                         isSaving |-> FALSE, saveDialogOpen |-> FALSE,
                         validationError |-> FALSE, isLocked |-> FALSE]
          /\ env = [DefaultEnv EXCEPT !.storage = st]
    /\ call = UnifiedCall(UnifiedInvoice(<<>>), Undefined)
    /\ pc = "Idle"
    /\ options = Undefined
    /\ invoice = Undefined
    /\ logoDataUrl = Null
    /\ company = Undefined
    /\ doc = NoDoc
    /\ tableStartY = 0
    /\ productReferenceMap = EmptyMap
    /\ lookups = <<>>
    /\ rows = <<>>
    /\ footerPage = 0
    /\ totalPages = 0
    /\ outcome = "pending"
    /\ parked = NoFrame
    /\ firestore = NoTraffic
    /\ invoicesPage = NoPage
    /\ auth = NoAuth

NextSettings ==
    \/ HandleSaveClick
    \/ HandleConfirmSave
    \/ SaveSettled

SpecSettings == InitSettings /\ [][NextSettings]_<<vars, outside>>

----------------------------------------------------------------------------
(* InvoicesPage, src/app/invoices/page.tsx, once loadInvoices has filled the
   list.  invoicesPage holds the useState cells of lines 75-93 and, beside
   them, the asynchronous handler calls that are suspended at their await:
     invoices           the list, each invoice its id and status
     downloadingId, updatingStatusId, deleteDialogState   as in the source
     pending            the suspended calls: kind "update" (updateDoc, line
                        149), "delete" (deleteDoc, line 208, with the invoices
                        and deleteDialogState its closure holds) or "download"
                        (generateInvoicePDF, line 187)
     started            the number of calls made
     log                the calls that have settled, in order, with whether
                        the awaited operation succeeded *)

MaxOps == 3

Statuses == {"Pending", "Paid", "Overdue"}

InvoiceIds == {<<"a">>, <<"b">>}

ClosedDialog == [isOpen |-> FALSE, invoiceId |-> <<>>]

\* a suspended handler call
Op(kind, id, status, captured, n) ==
    [kind |-> kind, id |-> id, status |-> status, captured |-> captured, n |-> n]

PendingOf(kind) == {op \in invoicesPage.pending : op.kind = kind}

\* lines 153-159: prev.map(inv => inv.id === invoiceId ? {...inv, status} : inv)
WithStatus(list, id, status) ==
    [i \in 1..Len(list) |-> IF list[i].id = id THEN [list[i] EXCEPT !.status = status] ELSE list[i]]

RECURSIVE Without(_, _)
\* line 209: list.filter(inv => inv.id !== invoiceId)
Without(list, id) ==
    IF list = <<>> THEN <<>>
    ELSE IF Head(list).id = id THEN Without(Tail(list), id)
    ELSE <<Head(list)>> \o Without(Tail(list), id)

\* the list changed before the write is known to have succeeded
AfterUpdateDoc_Optimistic(list, op, ok) == WithStatus(list, op.id, op.status)

\* lines 148-163: the list after updateDoc settles
AfterUpdateDoc(list, op, ok) == IF ok THEN WithStatus(list, op.id, op.status) ELSE list

\* lines 207-214: the list after deleteDoc settles; the filter is applied to
\* the invoices of the render confirmDeleteInvoice was created in
AfterDeleteDoc(list, op, ok) == IF ok THEN Without(op.captured, op.id) ELSE list

\* the page behind the open dialog takes no click
Clickable == invoicesPage.mounted /\ ~invoicesPage.deleteDialogState.isOpen

\* lines 144-149, up to the await; the Status control of the invoice is
\* disabled while updatingStatusId is its id, and so is the item of its status
HandleUpdateStatus ==
    /\ Clickable
    /\ invoicesPage.started < MaxOps
    /\ \E i \in 1..Len(invoicesPage.invoices), newStatus \in Statuses :
          LET inv == invoicesPage.invoices[i]
          IN /\ invoicesPage.updatingStatusId # Str(inv.id)
             /\ inv.status # newStatus
             /\ invoicesPage' =
                   [invoicesPage EXCEPT
                      !.updatingStatusId = Str(inv.id),
                      !.started = @ + 1,
                      !.pending = @ \cup {Op("update", inv.id, newStatus, <<>>, invoicesPage.started)}]
    /\ UNCHANGED <<vars, parked, firestore, auth, settings>>

\* lines 149-166: updateDoc settles
UpdateDocSettled ==
    /\ invoicesPage.mounted
    /\ \E op \in PendingOf("update"), ok \in BOOLEAN :
          invoicesPage' =
             [invoicesPage EXCEPT
                !.invoices = AfterUpdateDoc(@, op, ok),
                !.updatingStatusId = Null,
                !.pending = @ \ {op},
                !.log = Append(@, [kind |-> "update", id |-> op.id, status |-> op.status, ok |-> ok])]
    /\ UNCHANGED <<vars, parked, firestore, auth, settings>>

\* lines 197-203
HandleDeleteInvoice ==
    /\ Clickable
    /\ \E i \in 1..Len(invoicesPage.invoices) :
          invoicesPage' = [invoicesPage EXCEPT
                             !.deleteDialogState =
                                [isOpen |-> TRUE, invoiceId |-> invoicesPage.invoices[i].id]]
    /\ UNCHANGED <<vars, parked, firestore, auth, settings>>

\* line 725: Cancel
CancelDelete ==
    /\ invoicesPage.mounted
    /\ invoicesPage.deleteDialogState.isOpen
    /\ invoicesPage' = [invoicesPage EXCEPT !.deleteDialogState = ClosedDialog]
    /\ UNCHANGED <<vars, parked, firestore, auth, settings>>

\* lines 206-208, up to the await
ConfirmDeleteInvoice ==
    /\ invoicesPage.mounted
    /\ invoicesPage.deleteDialogState.isOpen
    /\ invoicesPage.started < MaxOps
    /\ invoicesPage' =
          [invoicesPage EXCEPT
             !.started = @ + 1,
             !.pending = @ \cup {Op("delete", invoicesPage.deleteDialogState.invoiceId, "",
                                    invoicesPage.invoices, invoicesPage.started)}]
    /\ UNCHANGED <<vars, parked, firestore, auth, settings>>

\* lines 208-214: deleteDoc settles
DeleteDocSettled ==
    /\ invoicesPage.mounted
    /\ \E op \in PendingOf("delete"), ok \in BOOLEAN :
          invoicesPage' =
             [invoicesPage EXCEPT
                !.invoices = AfterDeleteDoc(@, op, ok),
                !.deleteDialogState = IF ok THEN ClosedDialog ELSE @,
                !.pending = @ \ {op},
                !.log = Append(@, [kind |-> "delete", id |-> op.id, status |-> "", ok |-> ok])]
    /\ UNCHANGED <<vars, parked, firestore, auth, settings>>

\* lines 184-187, up to the await; the Download control of the invoice is
\* disabled while downloadingId is its id (lines 480 and 595)
HandleDownloadPDF ==
    /\ Clickable
    /\ invoicesPage.started < MaxOps
    /\ \E i \in 1..Len(invoicesPage.invoices) :
          LET inv == invoicesPage.invoices[i]
          IN /\ invoicesPage.downloadingId # Str(inv.id)
             /\ invoicesPage' =
                   [invoicesPage EXCEPT
                      !.downloadingId = Str(inv.id),
                      !.started = @ + 1,
                      !.pending = @ \cup {Op("download", inv.id, "", <<>>, invoicesPage.started)}]
    /\ UNCHANGED <<vars, parked, firestore, auth, settings>>

\* lines 187-193: generateInvoicePDF resolves or rejects
DownloadSettled ==
    /\ invoicesPage.mounted
    /\ \E op \in PendingOf("download"), ok \in BOOLEAN :
          invoicesPage' =
             [invoicesPage EXCEPT
                !.downloadingId = Null,
                !.pending = @ \ {op},
                !.log = Append(@, [kind |-> "download", id |-> op.id, status |-> "", ok |-> ok])]
    /\ UNCHANGED <<vars, parked, firestore, auth, settings>>

\* the lists loadInvoices may have filled in: two invoices
LoadedInvoices ==
    {<<[id |-> <<"a">>, status |-> sa], [id |-> <<"b">>, status |-> sb]>> :
        sa \in {"Pending", "Paid"}, sb \in {"Overdue"}}

InitPage ==
    /\ \E list \in LoadedInvoices :
          invoicesPage = [mounted |-> TRUE, invoices |-> list, downloadingId |-> Null,
                          updatingStatusId |-> Null, deleteDialogState |-> ClosedDialog,
                          pending |-> {}, started |-> 0, log |-> <<>>]
    /\ env = DefaultEnv
    /\ call = UnifiedCall(UnifiedInvoice(<<>>), Undefined)
    /\ pc = "Idle"
    /\ options = Undefined
    /\ invoice = Undefined
    /\ logoDataUrl = Null
    /\ company = Undefined
    /\ doc = NoDoc
    /\ tableStartY = 0
    /\ productReferenceMap = EmptyMap
    /\ lookups = <<>>
    /\ rows = <<>>
    /\ footerPage = 0
    /\ totalPages = 0
    /\ outcome = "pending"
    /\ parked = NoFrame
    /\ firestore = NoTraffic
    /\ auth = NoAuth
    /\ settings = NoSettings

NextPage ==
    \/ HandleUpdateStatus
    \/ UpdateDocSettled
    \/ HandleDeleteInvoice
    \/ CancelDelete
    \/ ConfirmDeleteInvoice
    \/ DeleteDocSettled
    \/ HandleDownloadPDF
    \/ DownloadSettled

SpecPage == InitPage /\ [][NextPage]_<<vars, outside>>

----------------------------------------------------------------------------
\* b is the unified call with the record that the legacy call a normalizes
\* to, under the same options
Counterpart(a, b) ==
    /\ isClientOrderCall(a[2])
    /\ b = UnifiedCall(NormalizeLegacy(a[1], a[2]), a[3])

(* C12: a legacy (client, order) call and the unified call made with the
   record that pair normalizes to, under the same options and the same
   external responses, produce identical output: the same drawing operations
   (invoice number, dates, client fields, item rows, totals) and the same
   file name. *)
C12_LegacyEqualsUnified ==
    (/\ parked # NoFrame
     /\ pc = "Serialized"
     /\ parked.pc = "Serialized"
     /\ Counterpart(call, parked.call))
        => doc = parked.doc

----------------------------------------------------------------------------
\* the document a call produces when its render runs from start to end with
\* no other render in the page, in a world where it reaches the save
AloneDoc(c, e) ==
    LET opts == OptionsOf(c[2], c[3])
        inv == InvoiceOf(c[1], c[2])
        logo == loadImageAsDataUrl(e.fetch[Nullish(Get(opts, "logoUrl"), Str(DEFAULT_LOGO_URL)).v])
        comp == Nullish(Get(opts, "company"), loadCompanyProfileFromStorage(e.storage))
        map == loadProductReferenceMap(unresolvedProductIds(ItemsOf(inv)),
                                       e.firestoreLoads, e.catalog).map
        startY == TableStartY(inv, e.now)
        t == autoTable(startY, Len(ItemsOf(inv)), e.descLines)
        totalsY == t.finalY + 100
        header ==
            <<[op |-> "headerBand", page |-> 1]>>
            \o (IF Truthy(logo) /\ ~e.addImageThrows
                THEN <<[op |-> "logo", page |-> 1, size |-> LogoSize(getImageAspectRatio(e.probe))]>>
                ELSE <<>>)
            \o (IF CompanyPresent(comp)
                THEN <<[op |-> "company", page |-> 1, lines |-> CompanyLines(comp)]>>
                ELSE <<>>)
            \o <<[op |-> "title", page |-> 1],
                 [op |-> "box", page |-> 1, y |-> contentTop, rows |-> leftRows(inv, e.now),
                  texts |-> BoxTexts(leftRows(inv, e.now)),
                  h |-> drawSectionBox(leftRows(inv, e.now), halfWidth)],
                 [op |-> "box", page |-> 1, y |-> contentTop, rows |-> rightRows(inv), texts |-> BoxTexts(rightRows(inv)),
                  h |-> drawSectionBox(rightRows(inv), halfWidth)]>>
        body ==
            <<[op |-> "table", page |-> 1, y |-> startY, body |-> Rows(ItemsOf(inv), map),
               lastPage |-> t.pages, finalY |-> t.finalY],
              [op |-> "totals", page |-> t.pages, y |-> totalsY,
               subtotalY |-> totalsY + 66, taxY |-> totalsY + 126,
               ruleY |-> totalsY + 152, totalY |-> totalsY + 186,
               subtotal |-> TotalsText(inv).subtotal, tax |-> TotalsText(inv).tax,
               total |-> TotalsText(inv).total]>>
        footers == [p \in 1..t.pages |->
                      [op |-> "footer", page |-> p, ruleY |-> footerY - 60, textY |-> footerY]]
    IN [pages |-> t.pages, page |-> t.pages, ops |-> header \o body \o footers,
        lastAutoTable |-> Num(t.finalY),
        saved |-> Str(safeFile(inv) \o <<".", "p", "d", "f">>)]

\* the frames of the two renders
BothFrames == {Frame, parked}

(* C13: two renders whose awaits interleave in any order each produce the
   document they produce when run alone: at every point each render's
   document holds only its own drawing operations, and a render that has
   saved holds exactly the document of its own call. *)
C13_RendersDoNotInterfere ==
    parked # NoFrame =>
        \A f \in BothFrames :
            /\ f.pc = "Serialized" => f.doc = AloneDoc(f.call, env)
            /\ f.pc \notin Finished \cup {"Idle"} =>
                  \A k \in 1..Len(f.doc.ops) :
                      /\ k <= Len(AloneDoc(f.call, env).ops)
                      /\ f.doc.ops[k] = AloneDoc(f.call, env).ops[k]

\* two renders of different calls each stopped at an await with part of its
\* document drawn, and one that was overtaken has since saved
C13_Witness ==
    /\ parked # NoFrame
    /\ call # parked.call
    /\ pc = "Serialized"
    /\ parked.pc = "ResolveReferences"
    /\ Len(parked.doc.ops) > 0
    /\ doc # AloneDoc(parked.call, env)
    /\ doc.pages >= 2

----------------------------------------------------------------------------
\* the catalog lookups of the render are over
LookupsOver == RowsKnown

\* the items of the invoice that lack a trimmed inline reference
Unreferenced ==
    {i \in 1..Len(ItemsOf(invoice)) : TrimmedField(ItemsOf(invoice)[i], "reference") = <<>>}

NoRepeat(ids) == \A i, j \in 1..Len(ids) : ids[i] = ids[j] => i = j

IssuedSet == {lookups[i] : i \in 1..Len(lookups)}

(* C19, as stated: the lookups issued by a render are exactly the distinct
   non-empty productIds of the items that lack a trimmed inline reference,
   each looked up once; when there is none, nothing of the catalog is
   touched. *)
C19_Original ==
    LET wanted == {TrimmedField(ItemsOf(invoice)[i], "productId") : i \in Unreferenced} \ {<<>>}
    IN /\ NoRepeat(lookups)
       /\ LookupsOver =>
             /\ IssuedSet = wanted
             /\ wanted = {} => ~firestore.imported

(* C19, amended: provided firebase/firestore loads, the lookups issued are
   exactly the distinct non-empty product identifiers (the trimmed productId,
   or the trimmed item id of an item with no productId) of the items that lack
   a trimmed inline reference, each looked up once; if it does not load, no
   lookup is issued; when there is no such identifier, nothing of the catalog
   is touched, not even the import. *)
C19_LookupsIssued ==
    LET wanted == {ProductIdOrId(ItemsOf(invoice)[i]) : i \in Unreferenced} \ {<<>>}
    IN /\ NoRepeat(lookups)
       /\ IssuedSet \subseteq wanted
       /\ firestore.imported => wanted # {}
       /\ LookupsOver =>
             /\ IssuedSet = (IF env.firestoreLoads THEN wanted ELSE {})
             /\ wanted = {} => ~firestore.imported /\ firestore.settled = <<>>

\* of two items one carries an inline reference: a single lookup was issued,
\* and none for the identifier of the item with the inline reference
C19_Witness ==
    /\ LookupsOver
    /\ Len(ItemsOf(invoice)) = 2
    /\ \E i \in 1..2 : TrimmedField(ItemsOf(invoice)[i], "reference") # <<>>
                         /\ ProductIdOrId(ItemsOf(invoice)[i]) \notin IssuedSet
    /\ Len(lookups) = 1

(* C20: the catalog lookups of a render are all issued before any of them
   settles, and in whatever order they settle (found, not found or failed)
   the lookup table is the one their ids determine and the rows are printed
   in the order of the item list. *)
C20_CompletionOrderIrrelevant ==
    /\ firestore.settled # <<>> => lookups = UniqueIds
    /\ (pc = "AwaitLookups" /\ firestore.inflight # {}) => lookups = UniqueIds
    /\ LookupsOver =>
          /\ productReferenceMap
                = loadProductReferenceMap(unresolvedProductIds(ItemsOf(invoice)),
                                          env.firestoreLoads, env.catalog).map
          /\ Len(rows) = Len(ItemsOf(invoice))
          /\ \A i \in 1..Len(rows) :
                /\ rows[i] = Row(ItemsOf(invoice)[i], productReferenceMap)
                /\ rows[i].reference
                      = FirstAvailable(TrimmedField(ItemsOf(invoice)[i], "reference"),
                                       ProductIdOrId(ItemsOf(invoice)[i]))

\* two lookups settled in the reverse of the order they were issued in, one
\* failing and one finding a reference
C20_Witness ==
    /\ LookupsOver
    /\ Len(lookups) = 2
    /\ firestore.settled = <<lookups[2], lookups[1]>>
    /\ \E id \in IssuedSet : CatalogAt(env.catalog, id).kind = "error"
    /\ \E id \in IssuedSet : CatalogAt(env.catalog, id).kind = "found"

----------------------------------------------------------------------------
(* C17: in every reachable state of AuthProvider the content of a non-auth
   page is rendered only when the auth state has loaded (the listener has
   reported) and a signed-in user is present, and the content of an auth
   page (/, /login, /register, /signin) is rendered only when no user is
   signed in. *)
C17_RoutesProtected ==
    (auth.mounted /\ auth.children) =>
        IF auth.pathname \in {"/", "/login", "/register", "/signin"}
        THEN auth.user = Null /\ ~auth.loading
        ELSE auth.user # Null /\ ~auth.loading /\ auth.observed

\* a user has signed in on the login page: the listener has reported him, the
\* page hides its content and the redirect to the dashboard is on its way
C17_Witness ==
    /\ auth.mounted
    /\ auth.pathname = "/login"
    /\ auth.user # Null
    /\ ~auth.loading
    /\ ~auth.children
    /\ auth.pendingNav = "/dashboard"

----------------------------------------------------------------------------
\* handleConfirmSave has run
ConfirmedSave == settings.mounted /\ (settings.isSaving \/ settings.isLocked)

IsNonEmpty(x) == x # <<>>

\* the non-empty trimmed entries of a list of the form, in order
NonEmptyTrimmed(a) == SelectSeq([i \in 1..Len(a) |-> Trim(a[i])], IsNonEmpty)

\* the list under f of a loaded company, empty when the company has none
LoadedList(c, f) ==
    IF IsObject(c) /\ f \in DOMAIN c THEN [i \in 1..Len(c[f]) |-> c[f][i].v] ELSE <<>>

\* the string under f of a loaded company, empty when there is none
LoadedString(c, f) == IF Get(c, f).t = "string" THEN Get(c, f).v ELSE <<>>

\* what the generator's loader returns is what the form held
SameAsForm(c) ==
    /\ LoadedString(c, "name") = Trim(settings.companyName)
    /\ LoadedString(c, "email") = Trim(settings.companyEmail)
    /\ LoadedList(c, "phoneNumbers") = NonEmptyTrimmed(settings.phoneNumbers)
    /\ LoadedList(c, "addresses") = NonEmptyTrimmed(settings.addresses)

(* C18, as stated: after handleConfirmSave, loadCompanyProfileFromStorage
   returns the trimmed name and email and the non-empty trimmed phone numbers
   and addresses of the form (an absent field or company read as empty). *)
C18_Original ==
    ConfirmedSave => SameAsForm(loadCompanyProfileFromStorage(env.storage))

(* C18, amended: after handleConfirmSave, provided localStorage took the
   write, loadCompanyProfileFromStorage returns the trimmed name and email
   and the non-empty trimmed phone numbers and addresses of the form, an empty
   list being returned as absent and a form with nothing but blanks as no
   company at all; if localStorage raised, nothing was saved and the loader
   returns what it returned before. *)
C18_RoundTrip ==
    ConfirmedSave =>
        LET c == loadCompanyProfileFromStorage(env.storage)
        IN IF env.storage.kind = "throws" THEN c = Undefined
           ELSE /\ SameAsForm(c)
                /\ c = Undefined <=>
                      /\ Trim(settings.companyName) = <<>>
                      /\ Trim(settings.companyEmail) = <<>>
                      /\ NonEmptyTrimmed(settings.phoneNumbers) = <<>>
                      /\ NonEmptyTrimmed(settings.addresses) = <<>>
                /\ c # Undefined =>
                      /\ "phoneNumbers" \in DOMAIN c <=> NonEmptyTrimmed(settings.phoneNumbers) # <<>>
                      /\ "addresses" \in DOMAIN c <=> NonEmptyTrimmed(settings.addresses) # <<>>

\* a padded name, a blank and a real phone number and a padded address were
\* saved over an older profile, and the loader returns them trimmed
C18_Witness ==
    /\ ConfirmedSave
    /\ settings.companyName = <<" ", "C", "o", " ">>
    /\ Len(settings.phoneNumbers) = 2
    /\ settings.addresses = <<<<" ", "a", " ">>>>
    /\ LoadedString(loadCompanyProfileFromStorage(env.storage), "name") = <<"C", "o">>
    /\ Len(LoadedList(loadCompanyProfileFromStorage(env.storage), "phoneNumbers")) = 1
    /\ LoadedList(loadCompanyProfileFromStorage(env.storage), "addresses") = <<<<"a">>>>

----------------------------------------------------------------------------
\* the cells a number is printed in
NumberCells(row) == {row.qty, row.unit, row.total}

IsNumeric(x) == x.t = "number"

\* text that shows a failed conversion
ShowsNaN(text) ==
    \/ \E i \in 1..Len(text) - 2 : SubSeq(text, i, i + 2) = <<"N", "a", "N">>
    \/ text = <<"u", "n", "d", "e", "f", "i", "n", "e", "d">>

(* C21: no cell of the line-item table renders as "NaN" or undefined; a
   quantity that is missing or no number renders as "0", a unit price or line
   total that is missing or no number as "0.00 Dt". *)
C21_NoNaNCell ==
    (RowsKnown /\ Len(rows) = Len(InputItems)) =>
        \A i \in 1..Len(rows) :
            /\ \A cell \in NumberCells(rows[i]) : ~ShowsNaN(cell)
            /\ ~IsNumeric(Get(InputItems[i], "quantity")) => rows[i].qty = <<"0">>
            /\ ~IsNumeric(Get(InputItems[i], "unitPrice")) =>
                   rows[i].unit = <<"0", ".", "0", "0", " ", "D", "t">>

----------------------------------------------------------------------------
\* fractions with positive denominators: a <= b, a = b, a / b = c
FracLeq(a, b) == a.n * b.d <= b.n * a.d

FracEq(a, b) == a.n * b.d = b.n * a.d

Whole(k) == [n |-> k, d |-> 1]

\* the decoded image has a positive aspect ratio
RatioAvailable == env.probe.kind = "size" /\ env.probe.w > 0 /\ env.probe.h > 0

NaturalRatio == [n |-> env.probe.w, d |-> env.probe.h]

(* C22: for every positive aspect ratio the drawn logo is at most 20 high and
   at most 34 wide, and its width over its height is the aspect ratio; it has
   the maximum height unless that makes it wider than 34, and then it has
   the maximum width.  When the aspect ratio is unavailable the drawn logo
   is a 20 by 20 square. *)
C22_LogoFits ==
    \A k \in LogoOps :
        LET size == doc.ops[k].size
        IN IF RatioAvailable
           THEN /\ FracLeq(size.h, Whole(logoMaxH))
                /\ FracLeq(size.w, Whole(logoMaxW))
                /\ size.w.n * size.h.d * NaturalRatio.d = NaturalRatio.n * size.h.n * size.w.d
                /\ IF FracLeq([n |-> logoMaxH * NaturalRatio.n, d |-> NaturalRatio.d], Whole(logoMaxW))
                   THEN FracEq(size.h, Whole(logoMaxH))
                   ELSE FracEq(size.w, Whole(logoMaxW))
           ELSE size = SquareLogo

\* a logo three times as wide as high was drawn 34 wide and 34/3 high
C22_Witness ==
    /\ pc = "Serialized"
    /\ env.probe = [kind |-> "size", w |-> 3, h |-> 1]
    /\ \E k \in LogoOps : /\ FracEq(doc.ops[k].size.w, Whole(34))
                           /\ FracEq(doc.ops[k].size.h, [n |-> 34, d |-> 3])

----------------------------------------------------------------------------
\* the value of a row is empty, blank or absent
BlankValue(value) == Trim(ToStringJS(Nullish(value, Str(<<>>)))) = <<>>

\* rows with a blank value print a single dash on one line
DashForBlank(k) ==
    \A i \in 1..Len(doc.ops[k].rows) :
        BlankValue(doc.ops[k].rows[i].value) =>
            /\ doc.ops[k].texts[i] = <<"-">>
            /\ WrappedLines(doc.ops[k].rows[i].value) = 1

(* C23, as stated: the height the section box engine reports is the header
   band height (9) + padding (4) + 4.8 per wrapped line + bottom padding (4),
   a row with an empty or absent value printing a single "-" on one line. *)
C23_Original ==
    \A k \in BoxOps :
        /\ doc.ops[k].h = 90 + 40 + 48 * BoxLines(k) + 40
        /\ DashForBlank(k)

(* C23, amended: the height the section box engine reports is padding (4) +
   header band height (9) + padding (4) + 4.8 per wrapped line + bottom
   padding (4), that is 21 + 4.8 per wrapped line, a row with an empty, blank
   or absent value printing a single "-" on one line. *)
C23_BoxHeight ==
    \A k \in BoxOps :
        /\ doc.ops[k].h = 40 + 90 + 40 + 48 * BoxLines(k) + 40
        /\ DashForBlank(k)

\* a box of five rows with a blank client name was drawn: the name printed as
\* a dash, and the height is 21 + 4.8 for each of its five lines
C23_Witness ==
    \E k \in BoxOps :
        /\ \E i \in 1..Len(doc.ops[k].rows) :
              /\ BlankValue(doc.ops[k].rows[i].value)
              /\ doc.ops[k].texts[i] = <<"-">>
        /\ Len(doc.ops[k].rows) = 5
        /\ doc.ops[k].h = 210 + 48 * 5

----------------------------------------------------------------------------
\* the record the caller passed the dates in: the invoice, or the order
DatedInput == IF IsInvoiceRecord(call[1]) THEN call[1] ELSE call[2]

NoIssueDate == Get(DatedInput, "issueDate") \in {Undefined, Null}

\* the value is a date or a timestamp other than 0
IsDateValue(x) == x.t = "date" \/ (x.t = "number" /\ x.v # 0)

\* the text of the Issue row of the details box
IssueRows ==
    {doc.ops[k].texts[2] : k \in {j \in BoxOps : /\ Len(doc.ops[j].rows) >= 2
                                                  /\ doc.ops[j].rows[2].label = "Issue :"}}

(* C24, as stated: when the input carries no issue date, the issue date
   printed in the invoice details box is the current time. *)
C24_Original ==
    (HeaderDone /\ NoIssueDate) => IssueRows = {IntToChars(env.now)}

(* C24, amended: when the input carries no issue date, the issue date printed
   in the invoice details box is the input's creation date when it has one
   that is a date (a legacy order's createdAt always is taken), and the
   current time otherwise. *)
C24_IssueDateDefault ==
    (HeaderDone /\ NoIssueDate) =>
        IssueRows = {IF IsDateValue(Get(DatedInput, "createdAt"))
                     THEN IntToChars(Get(DatedInput, "createdAt").v)
                     ELSE IntToChars(env.now)}

\* an invoice record with a creation date and no issue date printed the
\* creation date, not the current time
C24_Witness ==
    /\ HeaderDone
    /\ IsInvoiceRecord(call[1])
    /\ NoIssueDate
    /\ Get(DatedInput, "createdAt") = DateOf(5)
    /\ env.now # 5
    /\ IssueRows = {<<"5">>}

----------------------------------------------------------------------------
\* the render has been invoked where there is a window
InvokedInBrowser == pc # "Idle" /\ env.hasWindow

\* the render has ended in failure
EndedInFailure == pc \in Finished /\ outcome = "rejected"

\* the outcome is decided only by a step of the render that completes or fails
\* it, and a decided outcome stays: nothing cancels a render
DecidedByTheRender ==
    /\ outcome' # outcome =>
          /\ outcome = "pending"
          /\ pc' \in {"Returned", "Serialized", "ThrownAtImport", "ThrownAtSave"}
    /\ pc \in Finished => pc' = pc
    /\ pc' \in Finished => outcome' # "pending"

NoCancellation == [][DecidedByTheRender]_<<vars, outside>>

\* a render waits only for lookups it has started
WaitsOnlyOnIssued ==
    [](firestore.inflight \subseteq {lookups[i] : i \in 1..Len(lookups)})

(* C25: every render invoked in a browser environment eventually reaches
   Serialized or ends in failure, given that every operation it awaits
   settles; no step cancels it, and it never waits for a lookup it did not
   start. *)
C25_RunsToCompletion ==
    /\ InvokedInBrowser ~> (pc = "Serialized" \/ EndedInFailure)
    /\ NoCancellation
    /\ WaitsOnlyOnIssued

\* a render that waited for two lookups has reached Serialized
C25_Witness ==
    /\ env.hasWindow
    /\ pc = "Serialized"
    /\ Len(firestore.settled) = 2

----------------------------------------------------------------------------
\* the rule of the footer, 16 above the bottom edge of the page
FooterRuleY == pageHeight - 160

(* C26: wherever the table ends on its last page, the totals block, from the
   table's final position + 10 down to the total row, lies inside the page
   and above the footer rule at page height - 16. *)
C26_TotalsAboveFooter ==
    \A k \in TotalsOps :
        /\ doc.ops[k].y >= 0
        /\ doc.ops[k].totalY <= pageHeight
        /\ doc.ops[k].totalY < FooterRuleY

----------------------------------------------------------------------------
ListedIds == {invoicesPage.invoices[i].id : i \in 1..Len(invoicesPage.invoices)}

StatusOf(id) ==
    LET i == CHOOSE j \in 1..Len(invoicesPage.invoices) : invoicesPage.invoices[j].id = id
    IN invoicesPage.invoices[i].status

Settled == invoicesPage.log

\* the k-th settled call is a status update that succeeded and no later
\* status update of the same invoice has succeeded
LastGoodUpdate(k) ==
    /\ Settled[k].kind = "update" /\ Settled[k].ok
    /\ \A j \in (k + 1)..Len(Settled) :
          ~(Settled[j].kind = "update" /\ Settled[j].ok /\ Settled[j].id = Settled[k].id)

GoodDelete(k) == Settled[k].kind = "delete" /\ Settled[k].ok

(* C27: whenever a status update of one invoice and a confirmed delete of
   another have both succeeded, in either order of starting and settling, the
   list shows both: the deleted invoice is absent and the updated one carries
   its new status. *)
C27_BothReflected ==
    invoicesPage.mounted =>
        \A u, d \in 1..Len(Settled) :
            (LastGoodUpdate(u) /\ GoodDelete(d) /\ Settled[u].id # Settled[d].id) =>
                /\ Settled[d].id \notin ListedIds
                /\ Settled[u].id \in ListedIds => StatusOf(Settled[u].id) = Settled[u].status

(* C28: while a generation started by handleDownloadPDF for an invoice is in
   progress, downloadingId is that invoice's id, so no second generation for
   the same invoice is in progress, whatever downloads of other invoices are
   started meanwhile. *)
C28_DownloadingIdHeld ==
    invoicesPage.mounted =>
        /\ \A op \in PendingOf("download") : invoicesPage.downloadingId = Str(op.id)
        /\ \A op, other \in PendingOf("download") : op.id = other.id => op = other

\* the step settles a call whose awaited write failed
FailedWrite(kind) ==
    /\ Len(invoicesPage'.log) = Len(invoicesPage.log) + 1
    /\ invoicesPage'.log[Len(invoicesPage'.log)].kind = kind
    /\ ~invoicesPage'.log[Len(invoicesPage'.log)].ok

\* the step settles a status update
UpdateFinishes ==
    /\ Len(invoicesPage'.log) = Len(invoicesPage.log) + 1
    /\ invoicesPage'.log[Len(invoicesPage'.log)].kind = "update"

FailureLeavesList ==
    /\ (FailedWrite("update") \/ FailedWrite("delete")) =>
          invoicesPage'.invoices = invoicesPage.invoices
    /\ UpdateFinishes => invoicesPage'.updatingStatusId = Null

(* C29: a step in which the backend write of a status update or of a delete
   fails leaves the invoice list as it was, and a step in which a status
   update finishes, successfully or not, leaves updatingStatusId null. *)
C29_FailureLeavesList == [][invoicesPage.mounted => FailureLeavesList]_<<vars, outside>>

\* a status update and a delete have both failed and the list still holds
\* both invoices with the statuses they were loaded with
C29_Witness ==
    /\ invoicesPage.mounted
    /\ \E u, d \in 1..Len(Settled) :
          /\ Settled[u].kind = "update" /\ ~Settled[u].ok
          /\ Settled[d].kind = "delete" /\ ~Settled[d].ok
    /\ invoicesPage.invoices \in LoadedInvoices
    /\ invoicesPage.updatingStatusId = Null

----------------------------------------------------------------------------
(* C30: however the completion of setPersistence and the cleanup of the
   effect are ordered, no listener registered by a run of the effect that has
   been cleaned up is subscribed, and the listener of the current run has
   called router.replace at most once. *)
C30_CleanupUnsubscribes ==
    auth.mounted => auth.leaked = 0 /\ auth.redirects <= 1

\* a run resumed from its await after its cleanup, and in the current run the
\* listener has redirected a signed-out visitor to "/" and has then been
\* called again with a user before the router acted
C30_Witness ==
    /\ auth.mounted
    /\ auth.resumedLate
    /\ auth.leaked = 0
    /\ auth.redirects = 1
    /\ auth.pendingNav = "/"
    /\ auth.user # Null
    /\ ~auth.notify

====
